---- MODULE Spec2Model ----
(***************************************************************************)
(* Verification model of the StatsIQ aggregate worker.                     *)
(*                                                                         *)
(* The module holds three state machines over one set of variables:        *)
(*   SpecWrite  the aggregate writer (WriteAll: one transaction that takes *)
(*              the global advisory lock, purges, inserts and commits),    *)
(*              several worker goroutines and the sibling canonical writer *)
(*   SpecQueue  the Redis queue consumer (ConsumeConcurrent, handleRetry)  *)
(*   SpecBuild  the projection of one snapshot into match-player rows      *)
(*              (BuildMatchPlayerStats, computeMVP), run twice             *)
(* Each machine leaves the variables of the others unchanged.              *)
(***************************************************************************)
EXTENDS Integers, Sequences, FiniteSets, TLC

VARIABLES
    \* ---- the relational store and the write transactions (SpecWrite)
    store,      \* committed rows of every output table: [Tables -> SUBSET Row]
    canon,      \* committed canonical snapshot version of every match
    advLock,    \* pg advisory locks: [LockKeys -> holder transaction, 0 = free]
    rowLock,    \* row-level locks per match: parent (matches/rounds) and child rows
    tx,         \* per job: its WriteAll call (one transaction), by job number
    rolled,     \* history: some WriteAll rolled back after deleting committed rows
    sib,        \* per sibling canonical writer: its transaction in progress
    nextJob,    \* next job number (stands for the uuid.New() row identifiers)
    commits,    \* history, per match: the AggregateSets whose WriteAll committed, in order
    sibCount,   \* number of sibling transactions started
    \* ---- the Redis lists and the consumer goroutines (SpecQueue)
    queue,      \* the list <queue>: payloads, leftmost first
    retry,      \* the list <queue>:retry
    dlq,        \* the list <queue>:dlq
    counter,    \* the retry counters, by payload bytes (their SHA-256): 0 = no key
    jobChan,    \* the buffered job channel of ConsumeConcurrent
    chanClosed, \* close(jobChan) has run
    cancelled,  \* the context of main is cancelled (SIGINT / SIGTERM)
    consumer,   \* the BRPOP loop: its position and the payload it holds
    worker,     \* per worker goroutine: its position, payload and attempt number
    enq,        \* the payloads the producer has pushed
    calls,      \* history, per payload: number of handler invocations
    touched,    \* history, per payload: a handler invocation accessed the store
    acked,      \* history: payloads whose handler returned nil
    ackCalls,   \* history, per payload: the calls made by the invocation that returned nil
    lost,       \* history: payloads whose handler failed and that were put on no list
    lateStart,  \* history: payloads whose handler was started after the cancellation
    exitCode,   \* exit status of the process: -1 while it runs
    \* ---- the projection of one snapshot, run after run (SpecBuild)
    data,       \* the MatchData snapshot: team scores, each player's team tag and ACS
    now,        \* the clock: what time.Now() returns
    runs,       \* the match_player_stats rows the table holds after each run, in order
    \* ---- the events of one round and what the aggregate builders make of them (SpecRound)
    playerTeam, \* the team of every player of the match
    roundData,  \* the round's row of the snapshot: number, winning team, plant time
    events,     \* the round's events, in the order of the canonical read (by timestamp)
    trades,     \* ComputeTrades of the events: per player, trade kills and traded deaths
    clutches,   \* buildClutchRows of ComputeClutches of the events: the clutch participant rows
    roundStats, \* the round-player rows of the round, after linkClutchesToRoundStats
    \* ---- the rounds of one match and the team projections (SpecSides)
    match,      \* the snapshot: the two team ids, the rounds' numbers, the round-player rows
    teamMatchStats,     \* BuildTeamMatchStats of the snapshot: the team-match rows
    teamMatchSideStats, \* BuildTeamMatchSideStats of the snapshot: the team-match-side rows
    \* ---- the side function, round after round (SpecSideFunction)
    roundNo,        \* the number of the round
    sides,          \* DetermineSideByTag of the round number, for every team tag
    \* ---- the kill and damage events of one round and its duels (SpecDuels)
    skirmish,   \* the players' teams and the round's events, in timestamp order
    duels,      \* BuildMatchPlayerDuels of ComputeDuels of the events: the duel rows
    \* ---- the kills of one round and its multi-kill streaks (SpecMultiKills)
    killFeed,   \* the round's kill events, in timestamp order
    multiKills  \* computeRoundMultiKills of the kills: per player, the streak counts

dbVars == <<store, canon, advLock, rowLock, tx, rolled, sib, nextJob, commits, sibCount>>

queueVars == <<queue, retry, dlq, counter, jobChan, chanClosed, cancelled, consumer, worker,
               enq, calls, touched, acked, ackCalls, lost, lateStart, exitCode>>

roundVars == <<playerTeam, roundData, events, trades, clutches, roundStats>>

sideVars == <<match, teamMatchStats, teamMatchSideStats>>

sideFnVars == <<roundNo, sides>>

duelVars == <<skirmish, duels>>

multiVars == <<killFeed, multiKills>>

buildVars == <<data, now, runs, roundVars, sideVars, sideFnVars, duelVars, multiVars>>

vars == <<dbVars, queueVars, buildVars>>

\* ---------------------------------------------------------------- bounds
NumMatches == 2
NumWriters == 2
MaxJobs == 2
MaxSibTx == 1
RoundsPerMatch == 1

Matches == 1..NumMatches
\* A transaction of the aggregate worker is known by its job number; at most
\* NumWriters of them (the worker goroutines) are in progress at a time.
JobIds == 1..MaxJobs
\* The sibling canonical worker, as one more transaction identity.
Siblings == { MaxJobs + 1 }
TxIds == JobIds \cup Siblings

\* The queue: worker goroutines (WORKER_COUNT), channel capacity
\* (JOB_BUFFER_SIZE) and the number of payloads the producer pushes.
NumWorkers == 2
BufferSize == 1
NumPayloads == 1

Workers == 1..NumWorkers

\* Payload bytes, named by what Handle makes of them: bytes json.Unmarshal
\* rejects, a JSON job whose match_id uuid.Parse rejects, a well-formed job
\* for a match the store holds, and a well-formed job for a match it does not
\* hold (the store calls of the last two may fail or not).
Payloads == { "notjson", "notuuid", "valid", "absent" }

\* A second enqueueing of the bytes of the well-formed job (the match is
\* ingested again): the same bytes, another element of the list.
Copies == { "valid/2" }

Jobs == Payloads \cup Copies

\* retryCounterKey: the counter key is the SHA-256 of the payload bytes, one
\* key for every copy of the same bytes.
retryCounterKey(p) == IF p = "valid/2" THEN "valid" ELSE p

NoPayload == "none"

\* The snapshot of a match: its players, their combat scores, the clock.
NumPlayers == 2
MaxACS == 1
MaxClock == 2
MaxKills == 3
MaxRounds == 2
MaxRoundNumber == 120
MaxEvents == 2

Players == 1..NumPlayers

\* ---------------------------------------------------------------- tables
\* purgeAggregates: the DELETE statements in the order the code issues them.
PurgeOrder_Old ==
    << "team_match_side_stats_agregate", "team_match_stats_agregate",
       "match_player_stats_agregate", "round_player_stats_agregate", "clutches" >>

PurgeOrder ==
    << "composition_clutch_stats_agregate", "composition_weapon_stats_agregate",
       "player_clutch_stats_agregate", "match_player_weapon_stats_agregate",
       "match_player_duels_agregate", "team_match_side_stats_agregate",
       "team_match_stats_agregate", "match_player_stats_agregate",
       "round_team_stats_agregate", "round_player_stats_agregate", "clutches" >>

\* WriteAll: the insert calls in the order the code issues them.
InsertOrder ==
    << "clutches", "round_player_stats_agregate", "round_team_stats_agregate",
       "match_player_stats_agregate", "team_match_stats_agregate",
       "team_match_side_stats_agregate", "match_player_duels_agregate",
       "match_player_weapon_stats_agregate", "player_clutch_stats_agregate",
       "composition_weapon_stats_agregate", "composition_clutch_stats_agregate" >>

Tables == { InsertOrder[i] : i \in 1..Len(InsertOrder) }

\* Tables whose rows carry a round_id; their purge joins rounds on rounds.match_id.
RoundTables == { "clutches", "round_player_stats_agregate", "round_team_stats_agregate" }

\* Tables that are empty for a match in which no clutch was confirmed.
ClutchTables == { "clutches", "player_clutch_stats_agregate", "composition_clutch_stats_agregate" }

\* The snapshots of the model: the odd matches have a confirmed clutch, the even
\* ones have none (their AggregateSet has empty clutch slices).
HasClutch(m) == m % 2 = 1

\* The canonical rounds table: round r belongs to match RoundMatch(r).
RoundsOf(m) == { m * 10 + k : k \in 1..RoundsPerMatch }
RoundMatch(r) == r \div 10

\* The match a stored row of table tbl belongs to (match_id, or rounds.match_id
\* of its round_id).
RowMatch(tbl, r) == IF tbl \in RoundTables THEN RoundMatch(r.key) ELSE r.key

\* The rows of an AggregateSet for one table.  job stands for the generated row
\* identifiers, snap for every other column (a function of the snapshot read).
AggRows(agg, tbl) ==
    IF tbl \in ClutchTables /\ ~HasClutch(agg.match) THEN {}
    ELSE IF tbl \in RoundTables
         THEN { [key |-> r, job |-> agg.job, snap |-> agg.snap] : r \in RoundsOf(agg.match) }
         ELSE { [key |-> agg.match, job |-> agg.job, snap |-> agg.snap] }

NoAgg == [match |-> 0, job |-> 0, snap |-> 0]

MatchRows(st, tbl, m) == { r \in st[tbl] : RowMatch(tbl, r) = m }

\* ---------------------------------------------------------------- locks
\* const globalWriteLockKey int64 = 0x7374617469717721 ("statsiq_write")
globalWriteLockKey == "0x7374617469717721"

\* advisoryLockKey: FNV-64a of the match UUID (kept injective here).
advisoryLockKey(m) == "fnv64a:" \o ToString(m)

LockKeys == { globalWriteLockKey } \cup { advisoryLockKey(m) : m \in Matches }

\* The key WriteAll passes to pg_advisory_xact_lock.
WriteLockKey_PerMatch(m) == advisoryLockKey(m)

WriteLockKey(m) == globalWriteLockKey

NoRowLock == [pexcl |-> 0, pshare |-> {}, cexcl |-> 0]

\* Everything transaction t holds is released when it ends (commit or rollback).
ReleaseAdv(t) == [k \in LockKeys |-> IF advLock[k] = t THEN 0 ELSE advLock[k]]

ReleaseRows(t) ==
    [m \in Matches |->
        [pexcl  |-> IF rowLock[m].pexcl = t THEN 0 ELSE rowLock[m].pexcl,
         pshare |-> rowLock[m].pshare \ {t},
         cexcl  |-> IF rowLock[m].cexcl = t THEN 0 ELSE rowLock[m].cexcl]]

\* ---------------------------------------------------------------- WriteAll
IdleTx == [pc |-> "idle", agg |-> NoAgg, step |-> 0, del |-> {}, ins |-> {}]

\* A WriteAll call that has returned.
DoneTx == [IdleTx EXCEPT !.pc = "done"]

\* What transaction w sees of table tbl under READ COMMITTED: the committed rows
\* without its own deletes, with its own inserts.
Visible(w, tbl) ==
    (store[tbl] \ { d[2] : d \in { x \in tx[w].del : x[1] = tbl } })
        \cup { i[2] : i \in { x \in tx[w].ins : x[1] = tbl } }

\* defer tx.Rollback(ctx) after an error return: nothing of the transaction is
\* kept, its locks are released, WriteAll returns the error.
Rollback(w) ==
    /\ tx' = [tx EXCEPT ![w] = DoneTx]
    /\ rolled' = (rolled \/ tx[w].del # {})
    /\ advLock' = ReleaseAdv(w)
    /\ rowLock' = ReleaseRows(w)
    /\ UNCHANGED <<store, canon, sib, nextJob, commits, sibCount, queueVars, buildVars>>

\* The WriteAll calls in progress (one per busy worker goroutine).
InFlight == { j \in JobIds : tx[j].pc \notin {"idle", "done"} }

\* Handle: GetMatchData reads the snapshot (outside any lock), BuildAggregates
\* builds the AggregateSet, WriteAll is called and w.pool.BeginTx succeeds.
StartJob(w, m) ==
    /\ w = nextJob
    /\ nextJob <= MaxJobs
    /\ Cardinality(InFlight) < NumWriters
    /\ tx' = [tx EXCEPT ![w] =
                [IdleTx EXCEPT !.pc = "lock",
                               !.agg = [match |-> m, job |-> w, snap |-> canon[m]]]]
    /\ nextJob' = nextJob + 1
    /\ UNCHANGED <<store, canon, advLock, rowLock, rolled, sib, commits, sibCount, queueVars, buildVars>>

\* The same, with w.pool.BeginTx failing: WriteAll returns "begin tx" at once.
StartJobBeginFails(w, m) ==
    /\ w = nextJob
    /\ nextJob <= MaxJobs
    /\ Cardinality(InFlight) < NumWriters
    /\ tx' = [tx EXCEPT ![w] = DoneTx]
    /\ nextJob' = nextJob + 1
    /\ UNCHANGED <<store, canon, advLock, rowLock, rolled, sib, commits, sibCount, queueVars, buildVars>>

\* SELECT pg_advisory_xact_lock($1): blocks until the key is free.
AcquireLock(w) ==
    /\ tx[w].pc = "lock"
    /\ advLock[WriteLockKey(tx[w].agg.match)] = 0
    /\ advLock' = [advLock EXCEPT ![WriteLockKey(tx[w].agg.match)] = w]
    /\ tx' = [tx EXCEPT ![w].pc = "purge", ![w].step = 1]
    /\ UNCHANGED <<store, canon, rowLock, rolled, sib, nextJob, commits, sibCount, queueVars, buildVars>>

AcquireLockFails(w) ==
    /\ tx[w].pc = "lock"
    /\ Rollback(w)

\* The transaction after the statement at tx.step: the next purge, the first
\* insert after the last purge, the commit after the last insert.
AfterPurge(rec) ==
    IF rec.step >= Len(PurgeOrder) THEN [rec EXCEPT !.pc = "insert", !.step = 1]
    ELSE [rec EXCEPT !.step = @ + 1]

AfterInsert(rec) ==
    IF rec.step >= Len(InsertOrder) THEN [rec EXCEPT !.pc = "commit", !.step = 0]
    ELSE [rec EXCEPT !.step = @ + 1]

\* One DELETE of purgeAggregates, issued on the transaction (tx.Exec): it deletes
\* the rows of the match that the statement sees; deleting committed rows takes
\* their row locks, which blocks while another transaction holds them.
PurgeExec_Pool(w, tbl) ==
    /\ store' = [store EXCEPT ![tbl] = store[tbl] \ MatchRows(store, tbl, tx[w].agg.match)]
    /\ tx' = [tx EXCEPT ![w] = AfterPurge(tx[w])]
    /\ UNCHANGED rowLock

\* A DELETE without the condition on the match: every row of the table.
PurgeExec_AllRows(w, tbl) ==
    LET m == tx[w].agg.match
        victims == Visible(w, tbl)
        committed == victims \cap store[tbl]
    IN  /\ committed # {} => rowLock[m].cexcl \in {0, w}
        /\ rowLock' = IF committed # {} THEN [rowLock EXCEPT ![m].cexcl = w] ELSE rowLock
        /\ tx' = [tx EXCEPT ![w] =
                    AfterPurge([tx[w] EXCEPT
                        !.del = @ \cup { <<tbl, r>> : r \in committed },
                        !.ins = @ \ { <<tbl, r>> : r \in victims }])]
        /\ UNCHANGED store

PurgeExec(w, tbl) ==
    LET m == tx[w].agg.match
        victims == { r \in Visible(w, tbl) : RowMatch(tbl, r) = m }
        committed == victims \cap store[tbl]
    IN  /\ committed # {} => rowLock[m].cexcl \in {0, w}
        /\ rowLock' = IF committed # {} THEN [rowLock EXCEPT ![m].cexcl = w] ELSE rowLock
        /\ tx' = [tx EXCEPT ![w] =
                    AfterPurge([tx[w] EXCEPT
                        !.del = @ \cup { <<tbl, r>> : r \in committed },
                        !.ins = @ \ { <<tbl, r>> : r \in victims }])]
        /\ UNCHANGED store

PurgeStep(w) ==
    /\ tx[w].pc = "purge"
    /\ PurgeExec(w, PurgeOrder[tx[w].step])
    /\ UNCHANGED <<canon, advLock, rolled, sib, nextJob, commits, sibCount, queueVars, buildVars>>

PurgeFails(w) ==
    /\ tx[w].pc = "purge"
    /\ Rollback(w)

\* One insertX call: nothing is sent for an empty slice; otherwise CopyFrom adds
\* the rows inside the transaction.  The foreign keys to matches and rounds make
\* the insert take a share lock on the parent rows, which blocks while another
\* transaction holds them exclusively.
InsertExec(w, tbl) ==
    LET m == tx[w].agg.match
        rows == AggRows(tx[w].agg, tbl)
    IN  /\ rows # {} => rowLock[m].pexcl \in {0, w}
        /\ rowLock' = IF rows # {} THEN [rowLock EXCEPT ![m].pshare = @ \cup {w}] ELSE rowLock
        /\ tx' = [tx EXCEPT ![w] =
                    AfterInsert([tx[w] EXCEPT !.ins = @ \cup { <<tbl, r>> : r \in rows }])]

InsertStep(w) ==
    /\ tx[w].pc = "insert"
    /\ InsertExec(w, InsertOrder[tx[w].step])
    /\ UNCHANGED <<store, canon, advLock, rolled, sib, nextJob, commits, sibCount, queueVars, buildVars>>

InsertFails(w) ==
    /\ tx[w].pc = "insert"
    /\ Rollback(w)

\* tx.Commit: the deletes and inserts of the transaction become the committed
\* state in one step; the locks are released; WriteAll returns nil.
Commit(w) ==
    /\ tx[w].pc = "commit"
    /\ store' = [tbl \in Tables |->
                    (store[tbl] \ { d[2] : d \in { x \in tx[w].del : x[1] = tbl } })
                        \cup { i[2] : i \in { x \in tx[w].ins : x[1] = tbl } }]
    /\ commits' = [commits EXCEPT ![tx[w].agg.match] = Append(@, tx[w].agg)]
    /\ tx' = [tx EXCEPT ![w] = DoneTx]
    /\ advLock' = ReleaseAdv(w)
    /\ rowLock' = ReleaseRows(w)
    /\ UNCHANGED <<canon, rolled, sib, nextJob, sibCount, queueVars, buildVars>>

CommitFails(w) ==
    /\ tx[w].pc = "commit"
    /\ Rollback(w)

\* ------------------------------------------------- sibling canonical writer
\* The canonical worker takes the same global advisory lock before any write,
\* then mutates the parent rows (matches, rounds) of a match and, through the
\* foreign keys, the child rows that reference them.
IdleSib == [pc |-> "idle", match |-> 0]

SibBegin(s, m) ==
    /\ sib[s].pc = "idle"
    /\ sibCount < MaxSibTx
    /\ sib' = [sib EXCEPT ![s] = [pc |-> "lock", match |-> m]]
    /\ sibCount' = sibCount + 1
    /\ UNCHANGED <<store, canon, advLock, rowLock, tx, rolled, nextJob, commits, queueVars, buildVars>>

SibAcquire(s) ==
    /\ sib[s].pc = "lock"
    /\ advLock[globalWriteLockKey] = 0
    /\ advLock' = [advLock EXCEPT ![globalWriteLockKey] = s]
    /\ sib' = [sib EXCEPT ![s].pc = "parent"]
    /\ UNCHANGED <<store, canon, rowLock, tx, rolled, nextJob, commits, sibCount, queueVars, buildVars>>

SibWriteParent(s) ==
    /\ sib[s].pc = "parent"
    /\ rowLock[sib[s].match].pexcl \in {0, s}
    /\ rowLock[sib[s].match].pshare \subseteq {s}
    /\ rowLock' = [rowLock EXCEPT ![sib[s].match].pexcl = s]
    /\ sib' = [sib EXCEPT ![s].pc = "child"]
    /\ UNCHANGED <<store, canon, advLock, tx, rolled, nextJob, commits, sibCount, queueVars, buildVars>>

SibWriteChild(s) ==
    /\ sib[s].pc = "child"
    /\ rowLock[sib[s].match].cexcl \in {0, s}
    /\ rowLock' = [rowLock EXCEPT ![sib[s].match].cexcl = s]
    /\ sib' = [sib EXCEPT ![s].pc = "commit"]
    /\ UNCHANGED <<store, canon, advLock, tx, rolled, nextJob, commits, sibCount, queueVars, buildVars>>

SibEnd(s, ok) ==
    /\ sib[s].pc \in {"parent", "child", "commit"}
    /\ ok => sib[s].pc = "commit"
    /\ canon' = IF ok THEN [canon EXCEPT ![sib[s].match] = @ + 1] ELSE canon
    /\ sib' = [sib EXCEPT ![s] = IdleSib]
    /\ advLock' = ReleaseAdv(s)
    /\ rowLock' = ReleaseRows(s)
    /\ UNCHANGED <<store, tx, rolled, nextJob, commits, sibCount, queueVars, buildVars>>

\* ------------------------------------------------------------- initial state
\* The database before any job: no aggregate row, every match at snapshot 1.
InitDb ==
    /\ store = [tbl \in Tables |-> {}]
    /\ canon = [m \in Matches |-> 1]
    /\ advLock = [k \in LockKeys |-> 0]
    /\ rowLock = [m \in Matches |-> NoRowLock]
    /\ tx = [w \in JobIds |-> IdleTx]
    /\ rolled = FALSE
    /\ sib = [s \in Siblings |-> IdleSib]
    /\ nextJob = 1
    /\ commits = [m \in Matches |-> << >>]
    /\ sibCount = 0

\* ConsumeConcurrent at its start: empty lists, the channel made, the workers
\* started and blocked on the channel, the loop about to issue its first BRPOP.
IdleConsumer == [pc |-> "loop", held |-> NoPayload]

IdleWorker == [pc |-> "recv", p |-> NoPayload, attempt |-> 0]

InitRedis ==
    /\ queue = << >>
    /\ retry = << >>
    /\ dlq = << >>
    /\ counter = [p \in Payloads |-> 0]
    /\ jobChan = << >>
    /\ chanClosed = FALSE
    /\ cancelled = FALSE
    /\ consumer = IdleConsumer
    /\ worker = [w \in Workers |-> IdleWorker]
    /\ enq = {}
    /\ calls = [p \in Jobs |-> 0]
    /\ touched = [p \in Jobs |-> FALSE]
    /\ acked = {}
    /\ ackCalls = [p \in Jobs |-> {}]
    /\ lost = {}
    /\ lateStart = {}
    /\ exitCode = -1

\* No snapshot projected yet: a one-all match of players with no combat score.
\* No round is being aggregated.
NoRound ==
    /\ playerTeam = << >>
    /\ roundData = << >>
    /\ events = << >>
    /\ trades = << >>
    /\ clutches = << >>
    /\ roundStats = << >>

\* No match is being projected onto its teams.
NoSides ==
    /\ match = << >>
    /\ teamMatchStats = {}
    /\ teamMatchSideStats = {}

\* The side function is not being called.
NoSideCall ==
    /\ roundNo = -1
    /\ sides = << >>

\* No duels are being computed.
NoDuels ==
    /\ skirmish = << >>
    /\ duels = {}

\* No multi-kill streaks are being computed.
NoMultiKills ==
    /\ killFeed = << >>
    /\ multiKills = << >>

NoRuns ==
    /\ NoRound /\ NoSides /\ NoSideCall /\ NoDuels /\ NoMultiKills
    /\ data = [red |-> 0, blue |-> 0, tag |-> [p \in Players |-> "Red"], acs |-> [p \in Players |-> 0]]
    /\ now = 1
    /\ runs = << >>

\* ---------------------------------------------------------------- SpecWrite
InitWrite == InitDb /\ InitRedis /\ NoRuns

NextWrite ==
    \/ \E w \in JobIds, m \in Matches : StartJob(w, m)
    \/ \E w \in JobIds, m \in Matches : StartJobBeginFails(w, m)
    \/ \E w \in JobIds : AcquireLock(w)
    \/ \E w \in JobIds : AcquireLockFails(w)
    \/ \E w \in JobIds : PurgeStep(w)
    \/ \E w \in JobIds : PurgeFails(w)
    \/ \E w \in JobIds : InsertStep(w)
    \/ \E w \in JobIds : InsertFails(w)
    \/ \E w \in JobIds : Commit(w)
    \/ \E w \in JobIds : CommitFails(w)
    \/ \E s \in Siblings, m \in Matches : SibBegin(s, m)
    \/ \E s \in Siblings : SibAcquire(s)
    \/ \E s \in Siblings : SibWriteParent(s)
    \/ \E s \in Siblings : SibWriteChild(s)
    \/ \E s \in Siblings, ok \in BOOLEAN : SibEnd(s, ok)

SpecWrite == InitWrite /\ [][NextWrite]_vars

\* Scheduling: a transaction that can take its next step takes it (the store
\* executes the statement or fails it); pg grants an advisory lock to its
\* waiters in turn, so a waiter is not passed over for ever.
FinishStep(w) ==
    PurgeStep(w) \/ PurgeFails(w) \/ InsertStep(w) \/ InsertFails(w) \/ Commit(w) \/ CommitFails(w)

SibStep(s) == SibWriteParent(s) \/ SibWriteChild(s) \/ \E ok \in BOOLEAN : SibEnd(s, ok)

SpecWriteFair ==
    /\ SpecWrite
    /\ \A w \in JobIds : WF_vars(FinishStep(w)) /\ SF_vars(AcquireLock(w))
    /\ \A s \in Siblings : WF_vars(SibStep(s)) /\ SF_vars(SibAcquire(s))

\* ------------------------------------------------------------ write claims
Versions == 1..(1 + MaxSibTx)

\* The committed rows of match m are those of one AggregateSet in every table,
\* or there are none in any table.
WholeFor(st, m) ==
    \/ \A tbl \in Tables : MatchRows(st, tbl, m) = {}
    \/ \E j \in JobIds, v \in Versions :
          \A tbl \in Tables :
             MatchRows(st, tbl, m) = AggRows([match |-> m, job |-> j, snap |-> v], tbl)

Returns(w) == tx[w].pc # "done" /\ tx'[w].pc = "done"

ReturnsNil(w) == Returns(w) /\ tx[w].pc = "commit" /\ commits' # commits

\* C1: WriteAll is all-or-nothing.  A call that returns nil leaves exactly the
\* rows of its AggregateSet committed for its match, in every table; a call that
\* returns an error (begin, lock, a purge, an insert or the commit failed) leaves
\* the committed rows as they were; the committed rows change in no other step,
\* and in every committed state a match has the rows of one whole AggregateSet
\* or none.
C1_AllOrNothing ==
    /\ [](\A m \in Matches : WholeFor(store, m))
    /\ [][ /\ \A w \in JobIds :
                 Returns(w) =>
                    IF ReturnsNil(w)
                    THEN \A tbl \in Tables :
                            MatchRows(store', tbl, tx[w].agg.match) = AggRows(tx[w].agg, tbl)
                    ELSE store' = store
           /\ store' # store => \E w \in JobIds : ReturnsNil(w)
         ]_vars

\* A WriteAll failed after it had deleted committed rows of a match inside its
\* transaction, another one committed, and the match still has its rows.
C1_Witness ==
    /\ rolled
    /\ \E m \in Matches :
          /\ commits[m] # << >>
          /\ MatchRows(store, "match_player_stats_agregate", m) # {}

InCritical(t) ==
    IF t \in Siblings THEN sib[t].pc \in {"parent", "child", "commit"}
    ELSE tx[t].pc \in {"purge", "insert", "commit"}

\* C2: at most one write transaction (aggregate or canonical, any match) is past
\* the acquisition of the global advisory lock and not yet ended, and a WriteAll
\* that purges, inserts or commits holds the global lock.
C2_OneWriterUnderGlobalLock ==
    /\ Cardinality({ t \in TxIds : InCritical(t) }) <= 1
    /\ \A w \in JobIds : InCritical(w) => advLock[globalWriteLockKey] = w

\* A WriteAll is inserting while another WriteAll and the canonical writer wait
\* for the lock.
C2_Witness ==
    \E w \in JobIds :
       /\ tx[w].pc = "insert"
       /\ \E v \in JobIds : v # w /\ tx[v].pc = "lock"
       /\ \E s \in Siblings : sib[s].pc = "lock"

\* C3: once two (or more) WriteAll calls for one match have committed, the rows
\* stored for the match are exactly the AggregateSet of the last committer (no row
\* of an earlier one is left, in any table), and two calls for one match are never
\* both past the lock.
C3_LastCommitterWins ==
    /\ \A m \in Matches :
          Len(commits[m]) >= 2 =>
             \A tbl \in Tables :
                MatchRows(store, tbl, m) = AggRows(commits[m][Len(commits[m])], tbl)
    /\ \A w, v \in JobIds :
          (w # v /\ InCritical(w) /\ InCritical(v)) => tx[w].agg.match # tx[v].agg.match

C3_Witness ==
    \E m \in Matches :
       /\ Len(commits[m]) >= 2
       /\ MatchRows(store, "match_player_duels_agregate", m) # {}

\* What transaction t is waiting for: the holders of the lock its next statement
\* needs.
WaitsFor(t) ==
    IF t \in Siblings
    THEN LET m == sib[t].match IN
         CASE sib[t].pc = "lock"   -> { advLock[globalWriteLockKey] } \ {0, t}
           [] sib[t].pc = "parent" -> ({ rowLock[m].pexcl } \cup rowLock[m].pshare) \ {0, t}
           [] sib[t].pc = "child"  -> { rowLock[m].cexcl } \ {0, t}
           [] OTHER -> {}
    ELSE LET m == tx[t].agg.match IN
         CASE tx[t].pc = "lock" -> { advLock[WriteLockKey(m)] } \ {0, t}
           [] tx[t].pc = "purge" ->
                IF { r \in Visible(t, PurgeOrder[tx[t].step]) :
                        RowMatch(PurgeOrder[tx[t].step], r) = m }
                     \cap store[PurgeOrder[tx[t].step]] # {}
                THEN { rowLock[m].cexcl } \ {0, t} ELSE {}
           [] tx[t].pc = "insert" ->
                IF AggRows(tx[t].agg, InsertOrder[tx[t].step]) # {}
                THEN { rowLock[m].pexcl } \ {0, t} ELSE {}
           [] OTHER -> {}

RECURSIVE WaitClosure(_, _)
WaitClosure(S, n) ==
    IF n = 0 THEN S
    ELSE WaitClosure(S \cup UNION { WaitsFor(x) : x \in S }, n - 1)

NoWaitCycle == \A t \in TxIds : t \notin WaitClosure(WaitsFor(t), Cardinality(TxIds))

\* No lock outlives the transaction that took it.
LocksReleased ==
    /\ \A k \in LockKeys : advLock[k] # 0 => InCritical(advLock[k])
    /\ \A m \in Matches :
          /\ rowLock[m].pexcl # 0 => InCritical(rowLock[m].pexcl)
          /\ rowLock[m].cexcl # 0 => InCritical(rowLock[m].cexcl)
          /\ \A t \in rowLock[m].pshare : InCritical(t)

\* C5: no deadlock.  No set of transactions waits on each other in a cycle, a
\* lock is released when its holder commits or rolls back, and a transaction that
\* requests the global lock obtains it (or gives up with an error), given that
\* every holder finishes.
C5_NoDeadlock ==
    /\ [](NoWaitCycle /\ LocksReleased)
    /\ \A w \in JobIds :
          (tx[w].pc = "lock") ~> (advLock[globalWriteLockKey] = w \/ tx[w].pc = "done")
    /\ \A s \in Siblings :
          (sib[s].pc = "lock") ~> (advLock[globalWriteLockKey] = s)

\* Two aggregate transactions and the canonical writer have requested the lock
\* at once: one holds it and has taken row locks, the others wait for it.
C5_Witness ==
    \E w \in JobIds :
       /\ advLock[globalWriteLockKey] = w
       /\ w \in rowLock[tx[w].agg.match].pshare
       /\ \E v \in JobIds : w \in WaitsFor(v)
       /\ \E s \in Siblings : w \in WaitsFor(s)

\* C22: a WriteAll that purges, inserts or commits holds, besides the global
\* lock, a transaction-scoped advisory lock keyed on its match id, taken after
\* the global lock and before the first purge.
C22_MatchLockHeld ==
    \A w \in JobIds :
        InCritical(w) => advLock[advisoryLockKey(tx[w].agg.match)] = w

\* C24: when two jobs for one match have both committed, the rows stored for
\* the match are those of the newest snapshot one of them read: a job that read
\* an older snapshot does not overwrite the rows of one that read a newer one.
C24_NewestSnapshotStored ==
    \A m \in Matches :
        Len(commits[m]) >= 2 =>
            \A tbl \in Tables : \A r \in MatchRows(store, tbl, m) :
                \A i \in 1..Len(commits[m]) : r.snap >= commits[m][i].snap

\* C29: WriteAll for a match deletes and inserts rows of that match only (by
\* match_id, or by the match of the row's round): the rows of every other
\* match, in every table, are the same after the call as before it, whether it
\* commits or rolls back.
C29_OtherMatchesUntouched ==
    /\ [](\A w \in JobIds : \A x \in tx[w].del \cup tx[w].ins :
                RowMatch(x[1], x[2]) = tx[w].agg.match)
    /\ [][store' # store =>
            \E w \in JobIds :
                /\ ReturnsNil(w)
                /\ \A m \in Matches \ { tx[w].agg.match } : \A tbl \in Tables :
                        MatchRows(store', tbl, m) = MatchRows(store, tbl, m)]_vars

\* C29 witness: a WriteAll for one match has committed and one for another
\* match has purged and inserted, the rows of the first being stored.
C29_Witness ==
    \E w \in JobIds, m \in Matches :
        /\ tx[w].pc = "commit"
        /\ tx[w].agg.match # m
        /\ commits[m] # << >>
        /\ \A tbl \in Tables : MatchRows(store, tbl, m) # {} \/ tbl \in ClutchTables

\* ================================================================ the queue
\* The payloads Handle returns an error for before it uses the match id.
Malformed(p) == p \in { "notjson", "notuuid" }

maxRetryAttempts == 3

\* LPUSH puts a payload at the left end; BRPOP takes the right end.
LPush(list, p) == << p >> \o list

RPopped(list) == SubSeq(list, 1, Len(list) - 1)

Elems(list) == { list[i] : i \in 1..Len(list) }

\* Handle, by what it does with the payload: the error it returns and whether
\* it reached the store (MatchExists, GetMatchData, WriteAll). storeOK is the
\* outcome of the store calls it makes.
Handle_ReadFirst(p, storeOK) ==
    [ err |-> p \in { "notjson", "notuuid" } \/ ~storeOK, store |-> TRUE ]

Handle(p, storeOK) ==
    IF p = "notjson" THEN [ err |-> TRUE, store |-> FALSE ]
    ELSE IF p = "notuuid" THEN [ err |-> TRUE, store |-> FALSE ]
    ELSE [ err |-> ~storeOK, store |-> TRUE ]

\* Handle, on a path that returns nil: the calls it makes on the reader, the
\* builder, the writer and the refresher.  A match that MatchExists reports
\* absent ends the job there; bytes that do not parse never return nil.
CallsBeforeNil_NoExistsCheck(p) ==
    IF Malformed(p) THEN {}
    ELSE { "GetMatchData", "BuildAggregates", "WriteAll", "RefreshForMatchDate" }

CallsBeforeNil(p) ==
    IF Malformed(p) THEN {}
    ELSE IF p = "absent" THEN { "MatchExists" }
    ELSE { "MatchExists", "GetMatchData", "BuildAggregates", "WriteAll", "RefreshForMatchDate" }

\* A command on the Redis client fails when the context it is given is
\* cancelled, and may fail at any other time (connection errors).
RedisOutcomes == IF cancelled THEN { FALSE } ELSE BOOLEAN

\* The handler's store calls run under the context of main: they fail in an
\* invocation started after the cancellation, and may fail in any other.
StoreOutcomes(w) == IF worker[w].p \in lateStart THEN { FALSE } ELSE BOOLEAN

\* The producer (the canonical worker, or redis-cli): LPUSH <queue> payload.
\* It pushes a payload once (a match is enqueued once per ingestion).
Produce(p) ==
    /\ Cardinality(enq) < NumPayloads
    /\ p \notin enq
    /\ enq' = enq \cup { p }
    /\ queue' = LPush(queue, p)
    /\ UNCHANGED <<retry, dlq, counter, jobChan, chanClosed, cancelled, consumer, worker,
                   calls, touched, lost, lateStart, exitCode, acked, ackCalls, dbVars, buildVars>>

\* The producer pushes the bytes of a job it has pushed before.
ProduceAgain(p) ==
    /\ p \notin enq
    /\ retryCounterKey(p) \in enq
    /\ enq' = enq \cup { p }
    /\ queue' = LPush(queue, p)
    /\ UNCHANGED <<retry, dlq, counter, jobChan, chanClosed, cancelled, consumer, worker,
                   calls, touched, lost, lateStart, exitCode, acked, ackCalls, dbVars, buildVars>>

\* SIGINT / SIGTERM: signal.NotifyContext cancels the context.
Cancel ==
    /\ ~cancelled
    /\ cancelled' = TRUE
    /\ UNCHANGED <<queue, retry, dlq, counter, jobChan, chanClosed, consumer, worker,
                   enq, calls, touched, lost, lateStart, exitCode, acked, ackCalls, dbVars, buildVars>>

\* The loop of ConsumeConcurrent: ctx.Err() is nil at the top of the loop and
\* BRPOP <queue>:retry <queue> is issued, blocking for at most brPopBlock.
BRPopIssue ==
    /\ consumer.pc = "loop"
    /\ ~cancelled
    /\ consumer' = [pc |-> "brpop", held |-> NoPayload]
    /\ UNCHANGED <<queue, retry, dlq, counter, jobChan, chanClosed, cancelled, worker,
                   enq, calls, touched, lost, lateStart, exitCode, acked, ackCalls, dbVars, buildVars>>

\* BRPOP returns a payload, the retry list first.  The reply to a command in
\* flight can arrive after the cancellation.
BRPop ==
    /\ consumer.pc = "brpop"
    /\ IF retry # << >>
         THEN /\ consumer' = [pc |-> "select", held |-> retry[Len(retry)]]
              /\ retry' = RPopped(retry)
              /\ UNCHANGED queue
         ELSE /\ queue # << >>
              /\ consumer' = [pc |-> "select", held |-> queue[Len(queue)]]
              /\ queue' = RPopped(queue)
              /\ UNCHANGED retry
    /\ UNCHANGED <<dlq, counter, jobChan, chanClosed, cancelled, worker,
                   enq, calls, touched, lost, lateStart, exitCode, acked, ackCalls, dbVars, buildVars>>

\* BRPOP returns redis.Nil after brPopBlock with both lists empty: the loop
\* goes round.  (So does it on an error with a live context, not modelled.)
BRPopNil ==
    /\ consumer.pc = "brpop"
    /\ retry = << >>
    /\ queue = << >>
    /\ consumer' = [pc |-> "loop", held |-> NoPayload]
    /\ UNCHANGED <<queue, retry, dlq, counter, jobChan, chanClosed, cancelled, worker,
                   enq, calls, touched, lost, lateStart, exitCode, acked, ackCalls, dbVars, buildVars>>

\* The loop finds the context cancelled (ctx.Err() at the top of the loop, or
\* BRPOP cancelled): close(jobChan), then wg.Wait().
LoopCancelled ==
    /\ consumer.pc \in { "loop", "brpop" }
    /\ cancelled
    /\ chanClosed' = TRUE
    /\ consumer' = [pc |-> "wait", held |-> NoPayload]
    /\ UNCHANGED <<queue, retry, dlq, counter, jobChan, cancelled, worker,
                   enq, calls, touched, lost, lateStart, exitCode, acked, ackCalls, dbVars, buildVars>>

\* select, case jobChan <- payload: the channel has room.
SelectSend ==
    /\ consumer.pc = "select"
    /\ Len(jobChan) < BufferSize
    /\ jobChan' = Append(jobChan, consumer.held)
    /\ consumer' = [pc |-> "loop", held |-> NoPayload]
    /\ UNCHANGED <<queue, retry, dlq, counter, chanClosed, cancelled, worker,
                   enq, calls, touched, lost, lateStart, exitCode, acked, ackCalls, dbVars, buildVars>>

\* select, case <-ctx.Done(): close(jobChan), then wg.Wait(); the payload held
\* goes out of scope.
SelectDone ==
    /\ consumer.pc = "select"
    /\ cancelled
    /\ chanClosed' = TRUE
    /\ consumer' = [pc |-> "wait", held |-> NoPayload]
    /\ UNCHANGED <<queue, retry, dlq, counter, jobChan, cancelled, worker,
                   enq, calls, touched, lost, lateStart, exitCode, acked, ackCalls, dbVars, buildVars>>

\* wg.Wait() returns when every worker has run wg.Done().
WgDone_NoWait == TRUE

WgDone == \A w \in Workers : worker[w].pc = "exited"

\* main: os.Exit(1) if the consumer returned an error and the context is live;
\* else main returns (status 0).
ExitStatus(err, ctxErr) == IF err /\ ~ctxErr THEN 1 ELSE 0

\* ConsumeConcurrent returns ctx.Err() to main, and the process exits.
ConsumerReturn ==
    /\ consumer.pc = "wait"
    /\ WgDone
    /\ consumer' = [pc |-> "returned", held |-> NoPayload]
    /\ exitCode' = ExitStatus(cancelled, cancelled)
    /\ UNCHANGED <<queue, retry, dlq, counter, jobChan, chanClosed, cancelled, worker,
                   enq, calls, touched, lost, lateStart, acked, ackCalls, dbVars, buildVars>>

\* A worker: for payload := range jobChan -- receives the next payload (also
\* from a closed channel that still buffers payloads) and calls the handler.
WorkerReceive(w) ==
    /\ worker[w].pc = "recv"
    /\ jobChan # << >>
    /\ worker' = [worker EXCEPT ![w] = [pc |-> "handler", p |-> Head(jobChan), attempt |-> 0]]
    /\ jobChan' = Tail(jobChan)
    /\ calls' = [calls EXCEPT ![Head(jobChan)] = @ + 1]
    /\ lateStart' = IF cancelled THEN lateStart \cup { Head(jobChan) } ELSE lateStart
    /\ UNCHANGED <<queue, retry, dlq, counter, chanClosed, cancelled, consumer,
                   enq, touched, lost, exitCode, acked, ackCalls, dbVars, buildVars>>

\* range over a closed and drained channel ends: the worker exits (wg.Done).
WorkerExit(w) ==
    /\ worker[w].pc = "recv"
    /\ jobChan = << >>
    /\ chanClosed
    /\ worker' = [worker EXCEPT ![w] = [pc |-> "exited", p |-> NoPayload, attempt |-> 0]]
    /\ UNCHANGED <<queue, retry, dlq, counter, jobChan, chanClosed, cancelled, consumer,
                   enq, calls, touched, lost, lateStart, exitCode, acked, ackCalls, dbVars, buildVars>>

\* The handler returns nil: clearRetryCounter (DEL, its error dropped).
HandlerNil(w, storeOK, delOK) ==
    /\ worker[w].pc = "handler"
    /\ ~Handle(worker[w].p, storeOK).err
    /\ touched' = [touched EXCEPT ![worker[w].p] = @ \/ Handle(worker[w].p, storeOK).store]
    /\ counter' = IF delOK THEN [counter EXCEPT ![retryCounterKey(worker[w].p)] = 0] ELSE counter
    /\ acked' = acked \cup { worker[w].p }
    /\ ackCalls' = [ackCalls EXCEPT ![worker[w].p] = CallsBeforeNil(worker[w].p)]
    /\ worker' = [worker EXCEPT ![w] = IdleWorker]
    /\ UNCHANGED <<queue, retry, dlq, jobChan, chanClosed, cancelled, consumer,
                   enq, calls, lost, lateStart, exitCode, dbVars, buildVars>>

\* The handler returns an error: handleRetry starts with incrementRetryCounter
\* (INCR); if that fails handleRetry returns the error, which is logged.
HandlerErr(w, storeOK, incrOK) ==
    /\ worker[w].pc = "handler"
    /\ Handle(worker[w].p, storeOK).err
    /\ touched' = [touched EXCEPT ![worker[w].p] = @ \/ Handle(worker[w].p, storeOK).store]
    /\ IF incrOK
         THEN /\ counter' = [counter EXCEPT ![retryCounterKey(worker[w].p)] = @ + 1]
              /\ worker' = [worker EXCEPT ![w].pc = "push",
                                          ![w].attempt = counter[retryCounterKey(worker[w].p)] + 1]
              /\ UNCHANGED lost
         ELSE /\ worker' = [worker EXCEPT ![w] = IdleWorker]
              /\ lost' = lost \cup { worker[w].p }
              /\ UNCHANGED counter
    /\ UNCHANGED <<queue, retry, dlq, jobChan, chanClosed, cancelled, consumer,
                   enq, calls, lateStart, exitCode, acked, ackCalls, dbVars, buildVars>>

\* handleRetry, attempt > maxRetryAttempts: LPUSH <queue>:dlq and DEL of the
\* counter, both errors dropped.
PushDlq(w, pushOK, delOK) ==
    /\ worker[w].pc = "push"
    /\ worker[w].attempt > maxRetryAttempts
    /\ dlq' = IF pushOK THEN LPush(dlq, worker[w].p) ELSE dlq
    /\ lost' = IF pushOK THEN lost ELSE lost \cup { worker[w].p }
    /\ counter' = IF delOK THEN [counter EXCEPT ![retryCounterKey(worker[w].p)] = 0] ELSE counter
    /\ worker' = [worker EXCEPT ![w] = IdleWorker]
    /\ UNCHANGED <<queue, retry, jobChan, chanClosed, cancelled, consumer,
                   enq, calls, touched, lateStart, exitCode, acked, ackCalls, dbVars, buildVars>>

\* handleRetry, otherwise: LPUSH <queue>:retry, its error returned and logged.
PushRetry(w, pushOK) ==
    /\ worker[w].pc = "push"
    /\ worker[w].attempt <= maxRetryAttempts
    /\ retry' = IF pushOK THEN LPush(retry, worker[w].p) ELSE retry
    /\ lost' = IF pushOK THEN lost ELSE lost \cup { worker[w].p }
    /\ worker' = [worker EXCEPT ![w] = IdleWorker]
    /\ UNCHANGED <<queue, dlq, counter, jobChan, chanClosed, cancelled, consumer,
                   enq, calls, touched, lateStart, exitCode, acked, ackCalls, dbVars, buildVars>>

WorkerStep(w) ==
    \/ WorkerReceive(w)
    \/ WorkerExit(w)
    \/ \E storeOK \in StoreOutcomes(w), delOK \in RedisOutcomes : HandlerNil(w, storeOK, delOK)
    \/ \E storeOK \in StoreOutcomes(w), incrOK \in RedisOutcomes : HandlerErr(w, storeOK, incrOK)
    \/ \E pushOK \in RedisOutcomes, delOK \in RedisOutcomes : PushDlq(w, pushOK, delOK)
    \/ \E pushOK \in RedisOutcomes : PushRetry(w, pushOK)

\* ---------------------------------------------------------------- SpecQueue
InitQueue == InitDb /\ InitRedis /\ NoRuns

NextQueue ==
    \/ \E p \in Payloads : Produce(p)
    \/ Cancel
    \/ BRPopIssue
    \/ BRPop
    \/ BRPopNil
    \/ LoopCancelled
    \/ SelectSend
    \/ SelectDone
    \/ ConsumerReturn
    \/ \E w \in Workers : WorkerReceive(w)
    \/ \E w \in Workers : WorkerExit(w)
    \/ \E w \in Workers : \E storeOK \in StoreOutcomes(w), delOK \in RedisOutcomes : HandlerNil(w, storeOK, delOK)
    \/ \E w \in Workers : \E storeOK \in StoreOutcomes(w), incrOK \in RedisOutcomes : HandlerErr(w, storeOK, incrOK)
    \/ \E w \in Workers, pushOK \in RedisOutcomes, delOK \in RedisOutcomes : PushDlq(w, pushOK, delOK)
    \/ \E w \in Workers, pushOK \in RedisOutcomes : PushRetry(w, pushOK)

SpecQueue == InitQueue /\ [][NextQueue]_vars

\* The queue with jobs enqueued more than once.
NextQueueCopies ==
    \/ NextQueue
    \/ \E p \in Copies : ProduceAgain(p)

SpecQueueCopies == InitQueue /\ [][NextQueueCopies]_vars

\* Scheduling: the Go runtime runs every goroutine that can run, Redis answers
\* every command, and every handler invocation returns.
ConsumerStep == BRPopIssue \/ BRPop \/ BRPopNil \/ LoopCancelled \/ SelectSend \/ SelectDone \/ ConsumerReturn

SpecQueueFair ==
    /\ SpecQueue
    /\ WF_vars(ConsumerStep)
    /\ \A w \in Workers : WF_vars(WorkerStep(w))

\* ------------------------------------------------------------ queue claims
\* Where a payload is: on a list, in the channel, or in a goroutine's hands.
InHands(p) ==
    \/ consumer.held = p
    \/ p \in Elems(jobChan)
    \/ \E w \in Workers : worker[w].p = p

\* C6: a payload whose handler fails on every attempt is given 3 attempts: the
\* handler is never invoked on it a 4th time, and when it is on <queue>:dlq
\* the handler has been invoked on it exactly 3 times.
C6_ThreeAttemptsThenDlq ==
    \A p \in Payloads :
        p \notin acked =>
            /\ calls[p] <= 3
            /\ p \in Elems(dlq) => calls[p] = 3

\* C7: a payload whose handler returned an error is never dropped: no failed
\* payload is left on neither <queue>:retry nor <queue>:dlq, whatever the
\* outcome of the queue-store commands and the state of the context.
C7_FailedJobNeverDropped == lost = {}

\* C8: a payload that is not JSON or whose match_id is no UUID never makes a
\* handler reach the store; each of its failures increments its retry counter
\* (unless the INCR itself fails); while the queue store answers and the
\* consumer is not cancelled it ends on <queue>:dlq; and once there it is on
\* no other list and in no goroutine's hands.
C8_MalformedEndsInDlq ==
    /\ [](\A p \in Payloads : Malformed(p) => ~touched[p])
    /\ [][\A w \in Workers :
            (worker[w].pc = "handler" /\ Malformed(worker[w].p) /\ worker'[w].pc # "handler")
                => \/ /\ worker'[w].pc = "push"
                      /\ counter'[worker[w].p] = counter[worker[w].p] + 1
                      /\ worker'[w].attempt = counter'[worker[w].p]
                   \/ worker[w].p \in lost']_vars
    /\ \A p \in Payloads :
            Malformed(p) =>
                ((p \in Elems(queue)) ~> (p \in Elems(dlq) \/ cancelled \/ p \in lost))
    /\ [](\A p \in Payloads :
            (Malformed(p) /\ p \in Elems(dlq))
                => /\ ~InHands(p)
                   /\ p \notin Elems(queue) \cup Elems(retry)
                   /\ Len(SelectSeq(dlq, LAMBDA x : x = p)) = 1)

\* C8 witness: a malformed payload is on the DLQ after its failures were counted.
C8_Witness ==
    \E p \in Payloads :
        /\ Malformed(p)
        /\ p \in Elems(dlq)
        /\ calls[p] > 1
        /\ ~touched[p]
        /\ ~cancelled

\* C9: once the context is cancelled no worker starts a handler invocation for
\* a payload it was not already processing.
C9_NoNewJobAfterCancel == lateStart = {}

PoppedNotTaken == Len(jobChan) + (IF consumer.held = NoPayload THEN 0 ELSE 1)

\* C11: a pop is issued only when the job channel has room (no BRPOP is in
\* flight while the channel is full), and the payloads removed from the queue
\* and not yet taken by a worker number at most JOB_BUFFER_SIZE.
C11_PopOnlyWithRoom ==
    /\ consumer.pc = "brpop" => Len(jobChan) < BufferSize
    /\ PoppedNotTaken <= BufferSize

\* C12: when MatchExists reports the match absent the job is acknowledged:
\* Handle returns nil having called MatchExists only (no GetMatchData,
\* BuildAggregates, WriteAll or refresher), and on that return the queue layer
\* pushes nothing to <queue>:retry or <queue>:dlq and does not increment the
\* retry counter; the acknowledged payload is then on no list.
C12_AbsentMatchAcknowledged ==
    /\ [](("absent" \in acked)
            => /\ ackCalls["absent"] = { "MatchExists" }
               /\ "absent" \notin Elems(queue) \cup Elems(retry) \cup Elems(dlq)
               /\ ~InHands("absent"))
    /\ [][\A w \in Workers :
            (worker[w].pc = "handler" /\ worker[w].p = "absent" /\ "absent" \in acked')
                => /\ retry' = retry
                   /\ dlq' = dlq
                   /\ counter'["absent"] <= counter["absent"]
                   /\ lost' = lost
                   /\ worker'[w] = IdleWorker]_vars

\* C12 witness: a job for an absent match was acknowledged at its first
\* invocation, its counter untouched.
C12_Witness ==
    /\ "absent" \in acked
    /\ calls["absent"] = 1
    /\ counter["absent"] = 0
    /\ touched["absent"]
    /\ ~cancelled

\* C23: a payload the loop has popped leaves its hands only into the job
\* channel (from where a worker passes it to the handler) or back onto a queue
\* list: a payload popped while the channel is full is not discarded when the
\* cancellation arrives before it can be sent.
C23_PoppedNeverDiscarded ==
    [][(consumer.held # NoPayload /\ consumer'.held = NoPayload)
            => \/ jobChan' = Append(jobChan, consumer.held)
               \/ queue' = LPush(queue, consumer.held)
               \/ retry' = LPush(retry, consumer.held)]_vars

\* The handler invocations on job p that have returned an error.
Failures(p) ==
    IF p \in acked THEN calls[p] - 1
    ELSE IF \E w \in Workers : worker[w].pc = "handler" /\ worker[w].p = p THEN calls[p] - 1
    ELSE calls[p]

\* C25: with the same bytes enqueued more than once, the success of one copy
\* does not reset the retry counter while another copy has failed and is still
\* to be retried, and no copy that keeps failing has the handler invoked on it
\* more than maxRetryAttempts + 1 times.
C25_CopiesCountedApart ==
    /\ [](\A p \in Jobs : p \notin acked => calls[p] <= maxRetryAttempts + 1)
    /\ [][\A w \in Workers :
            (worker[w].pc = "handler" /\ worker[w].p \notin acked /\ worker[w].p \in acked')
                => \A q \in Jobs \ { worker[w].p } :
                      ( /\ retryCounterKey(q) = retryCounterKey(worker[w].p)
                        /\ q \notin acked /\ q \notin lost /\ q \notin Elems(dlq)
                        /\ Failures(q) > 0 )
                          => counter'[retryCounterKey(q)] = counter[retryCounterKey(q)]]_vars

\* ================================================================ the build
\* strings.ToUpper, on the team tags that occur.
ToUpper(tag) == IF tag = "Red" THEN "RED" ELSE IF tag = "Blue" THEN "BLUE" ELSE tag

TeamTags == { "Red", "Blue", "RED" }

\* BuildMatchPlayerStats: the winning team tag from the scores, "" for a draw.
WinningTeamTag(d) ==
    IF d.red > d.blue THEN "Red" ELSE IF d.blue > d.red THEN "Blue" ELSE ""

\* computeMVP: whether the row of player p is considered.
Considered(d, p) ==
    \/ WinningTeamTag(d) = ""
    \/ d.tag[p] = WinningTeamTag(d)
    \/ d.tag[p] = ToUpper(WinningTeamTag(d))

\* computeMVP: the loop over the rows, in their order; st = [idx, acs] is
\* (mvpIndex, highestACS) before row i.  mvpIndex starts at 0, highestACS at -1.
RECURSIVE MvpScan(_, _, _, _)
MvpScan(d, order, i, st) ==
    IF i > Len(order) THEN st
    ELSE IF Considered(d, order[i]) /\ d.acs[order[i]] > st.acs
        THEN MvpScan(d, order, i + 1, [idx |-> i, acs |-> d.acs[order[i]]])
        ELSE MvpScan(d, order, i + 1, st)

\* computeMVP: the MVP column of the row at index i (Go indexes from 0, the
\* model from 1; mvpIndex 0 of Go is the first row).
MvpColumn(d, order, i) ==
    LET st == MvpScan(d, order, 1, [idx |-> 1, acs |-> -1])
    IN  IF st.acs >= 0 /\ st.idx = i THEN 1 ELSE 0

\* The orders in which "for playerID := range statsByPlayer" can visit the players.
MapOrders == { o \in [1..NumPlayers -> Players] : \A i, j \in 1..NumPlayers : o[i] = o[j] => i = j }

\* BuildMatchPlayerStats: one row per player, in map order, stamped with now;
\* the id is what the writer's uuid.New() gives, new for every row of every run.
BuildMatchPlayerStats(d, order, at, runNo) ==
    { [ id |-> runNo * 10 + i, player |-> order[i], acs |-> d.acs[order[i]],
        mvp |-> MvpColumn(d, order, i), created_at |-> at ] : i \in 1..Len(order) }

\* A row without its generated identifier.
SansId(row) == [ player |-> row.player, acs |-> row.acs, mvp |-> row.mvp, created_at |-> row.created_at ]

\* Time passes.
Tick ==
    /\ now < MaxClock
    /\ now' = now + 1
    /\ UNCHANGED <<data, runs, roundVars, sideVars, sideFnVars, duelVars, multiVars, dbVars, queueVars>>

\* One run of the job on the snapshot: BuildAggregates reads the clock and
\* builds the rows; WriteAll replaces the table's rows for the match by them.
RunJob(order) ==
    /\ Len(runs) < 2
    /\ runs' = Append(runs, BuildMatchPlayerStats(data, order, now, Len(runs) + 1))
    /\ UNCHANGED <<data, now, roundVars, sideVars, sideFnVars, duelVars, multiVars, dbVars, queueVars>>

\* ---------------------------------------------------------------- SpecBuild
InitBuild ==
    /\ InitDb /\ InitRedis /\ NoRound /\ NoSides /\ NoSideCall /\ NoDuels /\ NoMultiKills
    /\ data \in [ red : 0..1, blue : 0..1, tag : [Players -> TeamTags], acs : [Players -> 0..MaxACS] ]
    /\ now = 1
    /\ runs = << >>

NextBuild ==
    \/ Tick
    \/ \E order \in MapOrders : RunJob(order)

SpecBuild == InitBuild /\ [][NextBuild]_vars

\* ------------------------------------------------------------- build claims
\* C4: after the second run on the unchanged snapshot the table holds the same
\* rows as after the first, comparing every column but the generated id.
C4_SecondRunSameRows ==
    Len(runs) = 2 =>
        /\ { SansId(r) : r \in runs[1] } = { SansId(r) : r \in runs[2] }
        /\ Cardinality(runs[1]) = Cardinality(runs[2])

\* C17: whenever a run emits at least one match-player row, exactly one of its
\* rows has mvp = 1, whatever the scores and the players' team tags.
C17_ExactlyOneMvp ==
    \A n \in 1..Len(runs) :
        runs[n] # {} => Cardinality({ r \in runs[n] : r.mvp = 1 }) = 1

\* ================================================================ the round
\* The players of the match and the two teams.
Fighters == { 1, 2, 3, 4 }

Teams == { "Red", "Blue" }

\* The rosters: the splits of the players into a Red and a Blue team.
Rosters == { <<"Red", "Red", "Red", "Blue">>, <<"Red", "Red", "Blue", "Blue">>, <<"Red", "Blue", "Blue", "Blue">> }

\* model.go: the trade window, in milliseconds.
TradeWindowMS == 3000

\* The time between two consecutive kills of a round, in milliseconds.
KillGaps == { 1000, 3000 }

\* ComputeTrades: "Filter kills only".
KillsOf(evs) == SelectSeq(evs, LAMBDA e : e.type = "kill")

\* ComputeTrades, forward loop from j for the kill i: the death of kill i is traded.
RECURSIVE TradedDeath(_, _, _, _)
TradedDeath(ks, pt, i, j) ==
    IF j > Len(ks) THEN FALSE
    ELSE IF ks[j].t > ks[i].t + TradeWindowMS THEN FALSE
    ELSE IF ks[j].victim = ks[i].player /\ pt[ks[j].player] = pt[ks[i].victim] THEN TRUE
    ELSE TradedDeath(ks, pt, i, j + 1)

\* ComputeTrades, backward loop from j for the kill i: kill i is a trade kill.
RECURSIVE TradeKill(_, _, _, _)
TradeKill(ks, pt, i, j) ==
    IF j < 1 THEN FALSE
    ELSE IF ks[j].t < ks[i].t - TradeWindowMS THEN FALSE
    ELSE IF ks[j].player = ks[i].victim /\ pt[ks[j].victim] = pt[ks[i].player] THEN TRUE
    ELSE TradeKill(ks, pt, i, j - 1)

\* ComputeTrades: the TradeResult of every player of the round (a player with
\* no entry in the map reads as zero in BuildRoundPlayerStats).
ComputeTrades(evs, pt) ==
    LET ks == KillsOf(evs)
    IN  [ p \in Fighters |->
            [ TradeKills   |-> Cardinality({ i \in 1..Len(ks) : ks[i].player = p /\ TradeKill(ks, pt, i, i - 1) }),
              TradedDeaths |-> Cardinality({ i \in 1..Len(ks) : ks[i].victim = p /\ TradedDeath(ks, pt, i, i + 1) }) ] ]

\* BuildRoundPlayerStats: the trade columns of the round-player rows, one row
\* per round player state.
RoundPlayerRows(tr) ==
    { [ player |-> p, trade_kill |-> tr[p].TradeKills, traded_death |-> tr[p].TradedDeaths ] : p \in Fighters }

\* The sum of a column over a set of rows.
RECURSIVE SumOver(_, _)
SumOver(rows, col) ==
    IF rows = {} THEN 0
    ELSE LET r == CHOOSE x \in rows : TRUE
         IN  r[col] + SumOver(rows \ {r}, col)

\* ---------------------------------------------------------------- clutches
\* model.go: the delay after which a clutch situation is confirmed, in milliseconds.
ClutchIdentificationDelayMS == 3000

\* DetermineSideByTag with every overtime period starting like the first.
DetermineSideByTag_NoAlternation(roundNumber, teamTag) ==
    LET isRedTeam == teamTag = "Red" \/ teamTag = "RED"
        firstHalf == roundNumber < 12 \/ (roundNumber >= 24 /\ (roundNumber - 24) % 2 = 0)
    IN  IF isRedTeam = firstHalf THEN "Attack" ELSE "Defense"

\* DetermineSideByTag: the side of the team tagged teamTag in round roundNumber.
DetermineSideByTag(roundNumber, teamTag) ==
    LET isRedTeam == teamTag = "Red" \/ teamTag = "RED"
        overtimeRound == roundNumber - 24
        otPeriod == overtimeRound \div 2
        roundInPeriod == overtimeRound % 2
        redStartsAttack == otPeriod % 2 = 0
    IN  IF roundNumber < 12 THEN (IF isRedTeam THEN "Attack" ELSE "Defense")
        ELSE IF roundNumber < 24 THEN (IF isRedTeam THEN "Defense" ELSE "Attack")
        ELSE IF isRedTeam
            THEN IF redStartsAttack
                 THEN (IF roundInPeriod = 0 THEN "Attack" ELSE "Defense")
                 ELSE (IF roundInPeriod = 0 THEN "Defense" ELSE "Attack")
            ELSE IF redStartsAttack
                 THEN (IF roundInPeriod = 0 THEN "Defense" ELSE "Attack")
                 ELSE (IF roundInPeriod = 0 THEN "Attack" ELSE "Defense")

\* DetermineSide: the teams of the model are known by their tag.
DetermineSide(roundNumber, team) == DetermineSideByTag(roundNumber, team)

\* BuildTeamPlayersMap: the players of a team, in the order of the match players.
TeamPlayers(pt, team) == SelectSeq([p \in Fighters |-> p], LAMBDA p : pt[p] = team)

\* getAlivePlayerIDs.
getAlivePlayerIDs(playerIDs, alive) == SelectSeq(playerIDs, LAMBDA p : p \in alive)

\* countAlive.
countAlive(playerIDs, alive) == Len(getAlivePlayerIDs(playerIDs, alive))

\* findSurvivor: the first player of the list that is alive, 0 (uuid.Nil) if none is.
findSurvivor(playerIDs, alive) ==
    IF getAlivePlayerIDs(playerIDs, alive) = << >> THEN 0 ELSE Head(getAlivePlayerIDs(playerIDs, alive))

\* GetOtherTeamID.
GetOtherTeamID(team) == IF team = "Red" THEN "Blue" ELSE "Red"

\* RoundData.PlantTimeMS of a round in which the spike was not planted (nil).
NoPlant == -1

\* The rounds a snapshot can hold: round number, winning team and plant time.
RoundHeaders ==
    { [ RoundNumber |-> 0,  WinnerTeamID |-> "Red",  PlantTimeMS |-> NoPlant ],
      [ RoundNumber |-> 0,  WinnerTeamID |-> "Blue", PlantTimeMS |-> 1000 ],
      [ RoundNumber |-> 12, WinnerTeamID |-> "Red",  PlantTimeMS |-> 4000 ],
      [ RoundNumber |-> 12, WinnerTeamID |-> "Blue", PlantTimeMS |-> 2000 ] }

\* determineSituation.
determineSituation(round, currentTimeMS) ==
    IF round.PlantTimeMS # NoPlant /\ currentTimeMS > round.PlantTimeMS THEN "post-plant" ELSE "pre-plant"

\* The orders in which "for teamID, state := range clutchStates" can visit the teams.
TeamOrders == { <<"Red", "Blue">>, <<"Blue", "Red">> }

NoClutch == [ Candidate |-> 0 ]

\* detectClutchInRound: the local variables before the first kill.
ClutchScanStart ==
    [ alive |-> Fighters, states |-> [tm \in Teams |-> NoClutch], confirmedClutch |-> NoClutch,
      clutcherTeamID |-> "", lastTimestamp |-> 0 ]

\* detectClutchInRound, "Check if any clutch should be confirmed": the loop
\* over clutchStates in the order ord, from its n-th team, at time at.
RECURSIVE ConfirmElapsed(_, _, _, _)
ConfirmElapsed(cs, ord, n, at) ==
    IF n > Len(ord) THEN cs
    ELSE LET st == cs.states[ord[n]]
         IN  IF st # NoClutch /\ ~st.Confirmed /\ at - st.AloneSince >= ClutchIdentificationDelayMS
             THEN ConfirmElapsed([cs EXCEPT !.states[ord[n]].Confirmed = TRUE,
                                            !.confirmedClutch = [st EXCEPT !.Confirmed = TRUE],
                                            !.clutcherTeamID = ord[n]], ord, n + 1, at)
             ELSE ConfirmElapsed(cs, ord, n + 1, at)

\* detectClutchInRound without the invalidation of a dead candidate.
InvalidateDead_Keep(cs, victimID) == cs

\* detectClutchInRound, "Check if clutcher died before confirmation".
InvalidateDead(cs, victimID) ==
    [cs EXCEPT !.states = [tm \in Teams |->
        IF cs.states[tm] # NoClutch /\ ~cs.states[tm].Confirmed /\ cs.states[tm].Candidate = victimID
        THEN NoClutch ELSE cs.states[tm]]]

\* detectClutchInRound: the body of the loop over the kills, for the kill.
ClutchKill(cs, kill, pt, round, ord) ==
    LET victimTeam == pt[kill.victim]
        alive == cs.alive \ { kill.victim }
        aliveCount == countAlive(TeamPlayers(pt, victimTeam), alive)
        opponentTeam == GetOtherTeamID(victimTeam)
        opponentsAlive == countAlive(TeamPlayers(pt, opponentTeam), alive)
        opened ==
            IF aliveCount = 1 /\ opponentsAlive > 0 /\ opponentsAlive <= 5
            THEN [cs.states EXCEPT ![victimTeam] =
                    [ Candidate |-> findSurvivor(TeamPlayers(pt, victimTeam), alive), AloneSince |-> kill.t,
                      OpponentsAtStart |-> opponentsAlive,
                      AliveOpponentIDs |-> getAlivePlayerIDs(TeamPlayers(pt, opponentTeam), alive),
                      Side |-> DetermineSide(round.RoundNumber, victimTeam),
                      Situation |-> determineSituation(round, kill.t), Confirmed |-> FALSE ]]
            ELSE cs.states
        marked == [cs EXCEPT !.alive = alive, !.lastTimestamp = kill.t, !.states = opened]
    IN  InvalidateDead(ConfirmElapsed(marked, ord, 1, kill.t), kill.victim)

\* detectClutchInRound: the loop over the kills, from the n-th.
RECURSIVE ClutchScan(_, _, _, _, _, _)
ClutchScan(cs, ks, n, pt, round, ord) ==
    IF n > Len(ks) THEN cs
    ELSE ClutchScan(ClutchKill(cs, ks[n], pt, round, ord), ks, n + 1, pt, round, ord)

\* detectClutchInRound, "check remaining states at round end": the loop over
\* clutchStates in the order ord, from its n-th team.
RECURSIVE ConfirmAtRoundEnd(_, _, _)
ConfirmAtRoundEnd(cs, ord, n) ==
    IF n > Len(ord) THEN cs
    ELSE LET st == cs.states[ord[n]]
         IN  IF /\ st # NoClutch /\ ~st.Confirmed /\ st.Candidate \in cs.alive
                /\ (cs.lastTimestamp + 1000) - st.AloneSince >= ClutchIdentificationDelayMS
             THEN ConfirmAtRoundEnd([cs EXCEPT !.states[ord[n]].Confirmed = TRUE,
                                               !.confirmedClutch = [st EXCEPT !.Confirmed = TRUE],
                                               !.clutcherTeamID = ord[n]], ord, n + 1)
             ELSE ConfirmAtRoundEnd(cs, ord, n + 1)

\* detectClutchInRound: the ClutchResult of the round, << >> for nil.
detectClutchInRound(round, evs, pt, ord) ==
    LET scanned == ClutchScan(ClutchScanStart, KillsOf(evs), 1, pt, round, ord)
        cs == IF scanned.confirmedClutch = NoClutch THEN ConfirmAtRoundEnd(scanned, ord, 1) ELSE scanned
    IN  IF cs.confirmedClutch = NoClutch THEN << >>
        ELSE << [ ClutcherID |-> cs.confirmedClutch.Candidate,
                  OpponentIDs |-> cs.confirmedClutch.AliveOpponentIDs,
                  Type |-> cs.confirmedClutch.OpponentsAtStart,
                  Won |-> (round.WinnerTeamID = cs.clutcherTeamID),
                  Side |-> cs.confirmedClutch.Side,
                  Situation |-> cs.confirmedClutch.Situation,
                  ClutchStartTimeMS |-> cs.confirmedClutch.AloneSince,
                  ClutchEndTimeMS |-> cs.lastTimestamp ] >>

\* getOppositeSide, returning the side it is given.
getOppositeSide_Same(side) == side

\* getOppositeSide.
getOppositeSide(side) == IF side = "Attack" THEN "Defense" ELSE "Attack"

\* A nil *uuid.UUID.
NoUUID == 0

\* uuid.New(): the n-th identifier of the run, different from every other.
uuidNew(n) == 100 + n

\* buildClutchRows: the rows of one ClutchResult, the clutcher's first, each
\* with an identifier of its own.
ClutchRowsOf(cr) ==
    << [ id |-> uuidNew(2), player |-> cr.ClutcherID, side |-> cr.Side, won |-> cr.Won, is_clutcher |-> TRUE,
         situation |-> cr.Situation, type |-> cr.Type, clutch_start_time_ms |-> cr.ClutchStartTimeMS ] >>
    \o [ n \in 1..Len(cr.OpponentIDs) |->
           [ id |-> uuidNew(2 + n), player |-> cr.OpponentIDs[n], side |-> getOppositeSide(cr.Side), won |-> ~cr.Won,
             is_clutcher |-> FALSE, situation |-> cr.Situation, type |-> cr.Type,
             clutch_start_time_ms |-> cr.ClutchStartTimeMS ] ]

\* buildClutchRows: the participant rows of the clutch results (of one round:
\* at most one result).
buildClutchRows(clutchResults) ==
    IF clutchResults = << >> THEN << >> ELSE ClutchRowsOf(clutchResults[1])

\* buildClutchByRoundPlayerMap: for the round, the clutcher and an identifier
\* made for the entry.
buildClutchByRoundPlayerMap(clutchResults) ==
    IF clutchResults = << >> THEN << >>
    ELSE << [ ClutchID |-> uuidNew(1), PlayerID |-> clutchResults[1].ClutcherID ] >>

\* BuildRoundPlayerStats: the rows of the round, one per round player state,
\* with the trade columns and the clutch id of the "Check clutch" step.
BuildRoundPlayerStats(tr, clutchResults) ==
    LET clutchByRoundPlayer == buildClutchByRoundPlayerMap(clutchResults)
    IN  [ p \in Fighters |->
            [ player |-> p, trade_kill |-> tr[p].TradeKills, traded_death |-> tr[p].TradedDeaths,
              clutch_id |-> IF clutchByRoundPlayer # << >> /\ clutchByRoundPlayer[1].PlayerID = p
                            THEN clutchByRoundPlayer[1].ClutchID ELSE NoUUID ] ]

\* linkClutchesToRoundStats leaving the rows as BuildRoundPlayerStats made them.
linkClutchesToRoundStats_Skip(stats, clutchRows) == stats

\* linkClutchesToRoundStats: every row whose player has an is_clutcher row gets
\* the id of that row.
linkClutchesToRoundStats(stats, clutchRows) ==
    LET clutchLookup == { n \in 1..Len(clutchRows) : clutchRows[n].is_clutcher }
    IN  [ i \in 1..Len(stats) |->
            IF \E n \in clutchLookup : clutchRows[n].player = stats[i].player
            THEN [stats[i] EXCEPT !.clutch_id =
                    clutchRows[CHOOSE n \in clutchLookup :
                                  /\ clutchRows[n].player = stats[i].player
                                  /\ \A m \in clutchLookup :
                                        clutchRows[m].player = stats[i].player => m <= n].id]
            ELSE stats[i] ]

\* ---------------------------------------------------------------- the round's events
\* The players no kill of the events has killed.
AliveAfter(evs) == Fighters \ { evs[i].victim : i \in { n \in 1..Len(evs) : evs[n].type = "kill" } }

\* The timestamp of the last event, 0 at the start of the round.
LastTime(evs) == IF evs = << >> THEN 0 ELSE evs[Len(evs)].t

\* One more kill in the round: player k kills v (k = v is a self-kill, same
\* team a teamkill); BuildAggregates projects the round again, in the map order
\* the run happens to have.
AddKill(k, v, gap) ==
    /\ playerTeam # << >>
    /\ Len(events) < MaxKills
    /\ k \in AliveAfter(events) /\ v \in AliveAfter(events)
    /\ events' = Append(events, [ type |-> "kill", player |-> k, victim |-> v, t |-> LastTime(events) + gap ])
    /\ trades' = ComputeTrades(events', playerTeam)
    /\ \E clutchResults \in { detectClutchInRound(roundData, events', playerTeam, ord) : ord \in TeamOrders } :
          /\ clutches' = buildClutchRows(clutchResults)
          /\ roundStats' = linkClutchesToRoundStats(BuildRoundPlayerStats(trades', clutchResults), clutches')
    /\ UNCHANGED <<playerTeam, roundData, data, now, runs, sideVars, sideFnVars, duelVars, multiVars, dbVars, queueVars>>

\* ---------------------------------------------------------------- SpecRound
InitRound ==
    /\ InitDb /\ InitRedis /\ NoSides /\ NoSideCall /\ NoDuels /\ NoMultiKills
    /\ data = [red |-> 0, blue |-> 0, tag |-> [p \in Players |-> "Red"], acs |-> [p \in Players |-> 0]]
    /\ now = 1
    /\ runs = << >>
    /\ playerTeam \in Rosters
    /\ roundData \in RoundHeaders
    /\ events = << >>
    /\ trades = ComputeTrades(<< >>, playerTeam)
    /\ clutches = << >>
    /\ roundStats = linkClutchesToRoundStats(BuildRoundPlayerStats(trades, << >>), << >>)

NextRound ==
    \E k \in Fighters, v \in Fighters, gap \in KillGaps : AddKill(k, v, gap)

SpecRound == InitRound /\ [][NextRound]_vars

\* ------------------------------------------------------------- round claims
\* The kill i of the round is a teamkill or a self-kill.
SameSide(ks, i) == playerTeam[ks[i].player] = playerTeam[ks[i].victim]

\* C13: over the round-player rows of the match, the trade kills and the
\* traded deaths add up to the same number, for every sequence of kills.
C13_TradeSymmetry ==
    SumOver(RoundPlayerRows(trades), "trade_kill") = SumOver(RoundPlayerRows(trades), "traded_death")

\* C14: a teamkill or self-kill never earns trade credit: its victim's death
\* is not counted as traded and it is not counted as a trade kill of its killer.
C14_NoTradeOnSameSide ==
    LET ks == KillsOf(events)
    IN  \A i \in 1..Len(ks) :
            SameSide(ks, i) =>
                /\ ~TradedDeath(ks, playerTeam, i, i + 1)
                /\ ~TradeKill(ks, playerTeam, i, i - 1)

\* The clutcher rows among the clutch participant rows.
ClutcherRows == { n \in 1..Len(clutches) : clutches[n].is_clutcher }

\* The kill of the events after which player p is the last one alive of its
\* team, 0 if there is none.
AloneFrom(p) ==
    LET at == { n \in 1..Len(events) :
                   /\ playerTeam[events[n].victim] = playerTeam[p]
                   /\ AliveAfter(SubSeq(events, 1, n)) \cap { q \in Fighters : playerTeam[q] = playerTeam[p] } = { p } }
    IN  IF at = {} THEN 0 ELSE CHOOSE n \in at : \A m \in at : n <= m

\* The opponents of player p alive after the n-th kill.
OpponentsAliveAt(p, n) ==
    AliveAfter(SubSeq(events, 1, n)) \cap { q \in Fighters : playerTeam[q] # playerTeam[p] }

\* C15: a round has at most one clutcher row; with it come exactly one row for
\* each opponent alive when the clutcher became alone, as many as the clutch
\* type (1 to 5), none for the clutcher, each with the opposite side and the
\* opposite won.
C15_ClutchCoherence ==
    /\ Cardinality(ClutcherRows) <= 1
    /\ \A c \in ClutcherRows :
        LET others == (1..Len(clutches)) \ { c }
            opened == AloneFrom(clutches[c].player)
        IN  /\ opened > 0
            /\ { clutches[n].player : n \in others } = OpponentsAliveAt(clutches[c].player, opened)
            /\ Cardinality(others) = Cardinality(OpponentsAliveAt(clutches[c].player, opened))
            /\ Cardinality(others) = clutches[c].type
            /\ clutches[c].type \in 1..5
            /\ \A n \in others :
                /\ clutches[n].player # clutches[c].player
                /\ clutches[n].side # clutches[c].side
                /\ { clutches[n].side, clutches[c].side } = { "Attack", "Defense" }
                /\ clutches[n].won = ~clutches[c].won

\* C15 witness: a clutch against two or more opponents is reported, lost by the clutcher.
C15_Witness ==
    \E c \in ClutcherRows : clutches[c].type >= 2 /\ Len(clutches) >= 3 /\ ~clutches[c].won

\* C16: the clutcher of a reported clutch was not killed before 3000 ms had
\* passed since it became alone: a candidate killed earlier is never reported,
\* whatever kills follow.
C16_ClutcherSurvivedDelay ==
    \A c \in ClutcherRows :
        \A n \in 1..Len(events) :
            events[n].victim = clutches[c].player
                => events[n].t >= clutches[c].clutch_start_time_ms + ClutchIdentificationDelayMS

\* C16 witness: a player became alone against an opponent, was killed less than
\* 3000 ms later, a kill followed after the 3000 ms, and the player is not reported.
C16_Witness ==
    \E p \in Fighters :
        LET opened == AloneFrom(p)
        IN  /\ opened > 0
            /\ OpponentsAliveAt(p, opened) # {}
            /\ \E n \in 1..Len(events) :
                    /\ events[n].victim = p
                    /\ events[n].t < events[opened].t + ClutchIdentificationDelayMS
            /\ events[Len(events)].t >= events[opened].t + ClutchIdentificationDelayMS
            /\ \A n \in 1..Len(clutches) : clutches[n].player # p \/ ~clutches[n].is_clutcher

\* C21: the clutch rows reported for a round are those of every map iteration
\* order: for the round, the roster and the kills in their order, the clutcher,
\* type, opponents, side, situation and won do not depend on the order in which
\* the loops over the clutch states visit the teams.
C21_ClutchDeterministic ==
    \A ord \in TeamOrders :
        clutches = buildClutchRows(detectClutchInRound(roundData, events, playerTeam, ord))

\* C26: the situation of a reported clutch is post-plant exactly when the plant
\* time of the round is set and is at most the time of the kill that opened the
\* clutch state, the plant time itself included.
C26_SituationAtOpening ==
    \A c \in ClutcherRows :
        clutches[c].situation = "post-plant"
            <=> (roundData.PlantTimeMS # NoPlant /\ roundData.PlantTimeMS <= clutches[c].clutch_start_time_ms)

\* The clutch state confirmed in the walk over the first n kills of the round,
\* in the map order ord; NoClutch if none is.
ConfirmedInWalk(n, ord) ==
    ClutchScan(ClutchScanStart, SubSeq(KillsOf(events), 1, n), 1, playerTeam, roundData, ord).confirmedClutch

\* C27: the clutch reported for the round is the first state confirmed during
\* the walk over the kills: under a map order that gives the reported rows,
\* every state confirmed after some kill is the clutcher, type and opponents of
\* the rows, whatever kills and confirmations follow.
C27_FirstConfirmedReported ==
    \E ord \in TeamOrders :
        /\ clutches = buildClutchRows(detectClutchInRound(roundData, events, playerTeam, ord))
        /\ \A n \in 1..Len(events) :
              LET st == ConfirmedInWalk(n, ord)
              IN  st # NoClutch =>
                    \E c \in ClutcherRows :
                        /\ clutches[c].player = st.Candidate
                        /\ clutches[c].type = st.OpponentsAtStart
                        /\ [ i \in 1..(Len(clutches) - 1) |-> clutches[i + 1].player ] = st.AliveOpponentIDs

\* The place of table tbl in the order of statements order.
PlaceIn(order, tbl) == CHOOSE i \in 1..Len(order) : order[i] = tbl

\* C30: in the AggregateSet of the round, a round-player row has a clutch id
\* exactly when its player is the clutcher of the round, and the id is that of
\* the is_clutcher row of the clutch rows of the same set; the writer inserts
\* the clutch rows before the round-player rows and purges them after.
C30_ClutchIdLinked ==
    /\ \A i \in 1..Len(roundStats) :
          /\ roundStats[i].clutch_id # NoUUID
                <=> \E c \in ClutcherRows : clutches[c].player = roundStats[i].player
          /\ roundStats[i].clutch_id # NoUUID
                => \E c \in ClutcherRows :
                      clutches[c].player = roundStats[i].player /\ clutches[c].id = roundStats[i].clutch_id
    /\ PlaceIn(InsertOrder, "clutches") < PlaceIn(InsertOrder, "round_player_stats_agregate")
    /\ PlaceIn(PurgeOrder, "round_player_stats_agregate") < PlaceIn(PurgeOrder, "clutches")

\* C30 witness: the round has a clutch; the row of the clutcher has the id of
\* the clutcher's clutch row and the row of an opponent of the clutch has none.
C30_Witness ==
    \E c \in ClutcherRows, i, j \in 1..Len(roundStats) :
        /\ roundStats[i].player = clutches[c].player
        /\ roundStats[i].clutch_id = clutches[c].id
        /\ roundStats[j].clutch_id = NoUUID
        /\ \E n \in 1..Len(clutches) : ~clutches[n].is_clutcher /\ clutches[n].player = roundStats[j].player

\* ================================================================ the sides
\* model.go: the fixed team identifiers.
RedTeamID == "00000000-0000-0000-0000-000000000001"

BlueTeamID == "00000000-0000-0000-0000-000000000002"

\* The team ids of a match, the Red-tagged team first: match_players.team_id as
\* the canonical reader returns it.
TeamIdPairs == { <<RedTeamID, BlueTeamID>>,
                 <<"6f1c0e52-0000-0000-0000-00000000000a", "9b7d3a10-0000-0000-0000-00000000000b">> }

\* The match players: player 1 plays for the first team, player 2 for the second.
MatchPlayers == { 1, 2 }

\* The round numbers a round of the snapshot can have.
RoundNumbers == { 0, 12, 25 }

\* What a round-player row can hold for one player in one round.
StatLines ==
    { [ Kills |-> 0, Deaths |-> 0, DamageGiven |-> 0, DamageTaken |-> 0 ],
      [ Kills |-> 1, Deaths |-> 0, DamageGiven |-> 2, DamageTaken |-> 1 ],
      [ Kills |-> 0, Deaths |-> 1, DamageGiven |-> 1, DamageTaken |-> 2 ] }

\* GetTeamIDs: the team ids of the match players.
GetTeamIDs(m) == { m.teamIDs[p] : p \in MatchPlayers }

\* BuildPlayerTeamMap, on the match players of the snapshot.
BuildPlayerTeamMap(m) == [ p \in MatchPlayers |-> m.teamIDs[p] ]

\* DetermineSide(roundNumber, teamID), the function getRoundIDsForTeamSide calls.
DetermineSideByTeamID(roundNumber, teamID) ==
    LET isRedTeam == teamID = RedTeamID
        overtimeRound == roundNumber - 24
        otPeriod == overtimeRound \div 2
        roundInPeriod == overtimeRound % 2
        redStartsAttack == otPeriod % 2 = 0
    IN  IF roundNumber < 12 THEN (IF isRedTeam THEN "Attack" ELSE "Defense")
        ELSE IF roundNumber < 24 THEN (IF isRedTeam THEN "Defense" ELSE "Attack")
        ELSE IF isRedTeam
            THEN IF redStartsAttack
                 THEN (IF roundInPeriod = 0 THEN "Attack" ELSE "Defense")
                 ELSE (IF roundInPeriod = 0 THEN "Defense" ELSE "Attack")
            ELSE IF redStartsAttack
                 THEN (IF roundInPeriod = 0 THEN "Defense" ELSE "Attack")
                 ELSE (IF roundInPeriod = 0 THEN "Attack" ELSE "Defense")

\* getRoundIDsForTeamSide: the rounds (by position) the team played on the side.
getRoundIDsForTeamSide(rounds, teamID, side) ==
    { n \in 1..Len(rounds) : DetermineSideByTeamID(rounds[n], teamID) = side }

\* The round-player rows of the players of a team in a set of rounds.
RowsOfTeam(m, teamID, roundIDs) ==
    { rps \in m.stats : BuildPlayerTeamMap(m)[rps.PlayerID] = teamID /\ rps.RoundID \in roundIDs }

\* BuildTeamMatchSideStats: for each of the two fixed team ids and each side
\* with at least one round, one row from the round-player rows of that team's
\* players in the rounds of that side.
BuildTeamMatchSideStats(m) ==
    { [ team |-> ts[1], side |-> ts[2],
        rounds_played |-> Cardinality(getRoundIDsForTeamSide(m.rounds, ts[1], ts[2])),
        kills |-> SumOver(RowsOfTeam(m, ts[1], getRoundIDsForTeamSide(m.rounds, ts[1], ts[2])), "Kills"),
        deaths |-> SumOver(RowsOfTeam(m, ts[1], getRoundIDsForTeamSide(m.rounds, ts[1], ts[2])), "Deaths"),
        damage_delta |-> SumOver(RowsOfTeam(m, ts[1], getRoundIDsForTeamSide(m.rounds, ts[1], ts[2])), "DamageGiven")
                         - SumOver(RowsOfTeam(m, ts[1], getRoundIDsForTeamSide(m.rounds, ts[1], ts[2])), "DamageTaken") ]
      : ts \in { x \in { RedTeamID, BlueTeamID } \X { "Attack", "Defense" } :
                    getRoundIDsForTeamSide(m.rounds, x[1], x[2]) # {} } }

\* BuildTeamMatchStats: one row per team id of the match players, from all the
\* round-player rows of the team's players; analyzeRoundsForTeams counts every
\* round for every team.
BuildTeamMatchStats(m) ==
    { [ team |-> teamID,
        rounds_played |-> Len(m.rounds),
        kills |-> SumOver(RowsOfTeam(m, teamID, 1..Len(m.rounds)), "Kills"),
        deaths |-> SumOver(RowsOfTeam(m, teamID, 1..Len(m.rounds)), "Deaths"),
        damage_delta |-> SumOver(RowsOfTeam(m, teamID, 1..Len(m.rounds)), "DamageGiven")
                         - SumOver(RowsOfTeam(m, teamID, 1..Len(m.rounds)), "DamageTaken") ]
      : teamID \in GetTeamIDs(m) }

\* The number of the last round of the snapshot, -1 if it has none.
LastRoundNumber(m) == IF m.rounds = << >> THEN -1 ELSE m.rounds[Len(m.rounds)]

\* The snapshot gains a round, with one round-player row per match player;
\* BuildAggregates projects it onto the teams again.
AddRound(number, lines) ==
    /\ match # << >>
    /\ Len(match.rounds) < MaxRounds
    /\ number > LastRoundNumber(match)
    /\ match' = [match EXCEPT
            !.rounds = Append(@, number),
            !.stats = @ \cup { [ RoundID |-> Len(match.rounds) + 1, PlayerID |-> p,
                                 Kills |-> lines[p].Kills, Deaths |-> lines[p].Deaths,
                                 DamageGiven |-> lines[p].DamageGiven,
                                 DamageTaken |-> lines[p].DamageTaken ] : p \in MatchPlayers }]
    /\ teamMatchStats' = BuildTeamMatchStats(match')
    /\ teamMatchSideStats' = BuildTeamMatchSideStats(match')
    /\ UNCHANGED <<data, now, runs, roundVars, sideFnVars, duelVars, multiVars, dbVars, queueVars>>

\* ---------------------------------------------------------------- SpecSides
InitSides ==
    /\ InitDb /\ InitRedis /\ NoRound /\ NoSideCall /\ NoDuels /\ NoMultiKills
    /\ data = [red |-> 0, blue |-> 0, tag |-> [p \in Players |-> "Red"], acs |-> [p \in Players |-> 0]]
    /\ now = 1
    /\ runs = << >>
    /\ \E ids \in TeamIdPairs : match = [ teamIDs |-> ids, rounds |-> << >>, stats |-> {} ]
    /\ teamMatchStats = BuildTeamMatchStats(match)
    /\ teamMatchSideStats = BuildTeamMatchSideStats(match)

NextSides ==
    \E number \in RoundNumbers, lines \in [MatchPlayers -> StatLines] : AddRound(number, lines)

SpecSides == InitSides /\ [][NextSides]_vars

\* ------------------------------------------------------------- sides claims
\* The team-match-side rows of a team.
SideRowsOf(teamID) == { r \in teamMatchSideStats : r.team = teamID }

SideTags == { "Red", "RED", "Blue", "BLUE" }

\* The sides of the tagged teams in one round, as DetermineSideByTag gives them.
SidesIn(n) == [ tag \in SideTags |-> DetermineSideByTag(n, tag) ]

\* The next round of the match is played: its number is one more.
PlayRound ==
    /\ roundNo >= 0
    /\ roundNo < MaxRoundNumber
    /\ roundNo' = roundNo + 1
    /\ sides' = SidesIn(roundNo')
    /\ UNCHANGED <<data, now, runs, roundVars, sideVars, duelVars, multiVars, dbVars, queueVars>>

\* ---------------------------------------------------------------- SpecSideFunction
InitSideFunction ==
    /\ InitDb /\ InitRedis /\ NoRound /\ NoSides /\ NoDuels /\ NoMultiKills
    /\ data = [red |-> 0, blue |-> 0, tag |-> [p \in Players |-> "Red"], acs |-> [p \in Players |-> 0]]
    /\ now = 1
    /\ runs = << >>
    /\ roundNo = 0
    /\ sides = SidesIn(0)

NextSideFunction == PlayRound

SpecSideFunction == InitSideFunction /\ [][NextSideFunction]_vars

\* ------------------------------------------------------------- side function claims
\* C19: in every round n >= 0 the Red and the Blue team are on opposite sides;
\* Red attacks in rounds 0..11 and defends in rounds 12..23; in overtime, with
\* p = (n - 24) div 2, Red attacks on the first round of period p when p is
\* even and defends when p is odd, and has the other side on the second round.
C19_SideSchedule ==
    LET n == roundNo
        p == (n - 24) \div 2
        firstOfPeriod == (n - 24) % 2 = 0
        firstSide == IF p % 2 = 0 THEN "Attack" ELSE "Defense"
        secondSide == IF p % 2 = 0 THEN "Defense" ELSE "Attack"
    IN  n >= 0 =>
            /\ { sides["Red"], sides["Blue"] } = { "Attack", "Defense" }
            /\ n \in 0..11 => sides["Red"] = "Attack"
            /\ n \in 12..23 => sides["Red"] = "Defense"
            /\ n >= 24 => sides["Red"] = (IF firstOfPeriod THEN firstSide ELSE secondSide)

\* C19 witness: the second round of the second overtime period, Red attacking.
C19_Witness == roundNo = 27 /\ sides["Red"] = "Attack" /\ sides["Blue"] = "Defense"

\* ================================================================ the duels
\* The damage a damage event can carry.
DamageValues == { 0, 50 }

\* ComputeEntries: the entry kill of the round, the first of the kills with the
\* minimum timestamp; << >> if the round has no kill.
ComputeEntries(evs) ==
    LET ks == KillsOf(evs)
        first == CHOOSE n \in 1..Len(ks) :
                    /\ \A m \in 1..Len(ks) : ks[n].t <= ks[m].t
                    /\ \A m \in 1..(n - 1) : ks[m].t > ks[n].t
    IN  IF ks = << >> THEN << >>
        ELSE << [ EntryKillerID |-> ks[first].player, EntryVictimID |-> ks[first].victim ] >>

\* ComputeDuels: the events that pass "Skip self-kills" and "Skip teamkills".
DuelEvents(evs, pt) ==
    { n \in 1..Len(evs) : evs[n].player # evs[n].victim /\ pt[evs[n].player] # pt[evs[n].victim] }

\* ComputeDuels: the sum of the damage of the events at the positions ns.
RECURSIVE DamageOf(_, _)
DamageOf(evs, ns) ==
    IF ns = {} THEN 0
    ELSE LET n == CHOOSE x \in ns : TRUE
         IN  evs[n].damage + DamageOf(evs, ns \ {n})

\* ComputeDuels: the keys getOrCreate has created.
DuelKeys(evs, pt, entries) ==
    { <<evs[n].player, evs[n].victim>> : n \in DuelEvents(evs, pt) }
    \cup { <<evs[n].victim, evs[n].player>> : n \in DuelEvents(evs, pt) }
    \cup { <<entries[i].EntryKillerID, entries[i].EntryVictimID>> : i \in 1..Len(entries) }
    \cup { <<entries[i].EntryVictimID, entries[i].EntryKillerID>> : i \in 1..Len(entries) }

\* ComputeDuels: the DuelStats by DuelKey.
ComputeDuels(evs, entries, pt) ==
    LET ok == DuelEvents(evs, pt)
    IN  [ key \in DuelKeys(evs, pt, entries) |->
            [ Kills |-> Cardinality({ n \in ok : evs[n].type = "kill" /\ evs[n].player = key[1] /\ evs[n].victim = key[2] }),
              Deaths |-> Cardinality({ n \in ok : evs[n].type = "kill" /\ evs[n].player = key[2] /\ evs[n].victim = key[1] }),
              DamageGiven |-> DamageOf(evs, { n \in ok : evs[n].type = "damage" /\ evs[n].player = key[1] /\ evs[n].victim = key[2] }),
              DamageTaken |-> DamageOf(evs, { n \in ok : evs[n].type = "damage" /\ evs[n].player = key[2] /\ evs[n].victim = key[1] }),
              FirstKills |-> Cardinality({ i \in 1..Len(entries) : entries[i].EntryKillerID = key[1] /\ entries[i].EntryVictimID = key[2] }),
              FirstDeaths |-> Cardinality({ i \in 1..Len(entries) : entries[i].EntryVictimID = key[1] /\ entries[i].EntryKillerID = key[2] }) ] ]

\* A duel row.
DuelRow(key, stats) ==
    [ player |-> key[1], opponent |-> key[2], kills |-> stats.Kills, deaths |-> stats.Deaths,
      first_kills |-> stats.FirstKills, first_deaths |-> stats.FirstDeaths,
      damage_given |-> stats.DamageGiven, damage_taken |-> stats.DamageTaken ]

\* BuildMatchPlayerDuels without "Only include duels with actual interactions".
BuildMatchPlayerDuels_All(duelStats) ==
    { DuelRow(key, duelStats[key]) : key \in DOMAIN duelStats }

\* BuildMatchPlayerDuels: the rows of the duels with a kill, a death or damage.
BuildMatchPlayerDuels(duelStats) ==
    { row \in { DuelRow(key, duelStats[key]) : key \in DOMAIN duelStats } :
        ~(row.kills = 0 /\ row.deaths = 0 /\ row.damage_given = 0 /\ row.damage_taken = 0) }

\* One more event in the round, a kill or a damage event of player k on v;
\* BuildAggregates computes the duels of the round again.
AddEvent(type, k, v, damage) ==
    /\ skirmish # << >>
    /\ Len(skirmish.events) < MaxEvents
    /\ type = "kill" => damage = 0
    /\ skirmish' = [skirmish EXCEPT !.events =
            Append(@, [ type |-> type, player |-> k, victim |-> v, damage |-> damage,
                        t |-> LastTime(skirmish.events) + 1000 ])]
    /\ duels' = BuildMatchPlayerDuels(ComputeDuels(skirmish'.events, ComputeEntries(skirmish'.events),
                                                   skirmish'.playerTeam))
    /\ UNCHANGED <<data, now, runs, roundVars, sideVars, sideFnVars, multiVars, dbVars, queueVars>>

\* ---------------------------------------------------------------- SpecDuels
InitDuels ==
    /\ InitDb /\ InitRedis /\ NoRound /\ NoSides /\ NoSideCall /\ NoMultiKills
    /\ data = [red |-> 0, blue |-> 0, tag |-> [p \in Players |-> "Red"], acs |-> [p \in Players |-> 0]]
    /\ now = 1
    /\ runs = << >>
    /\ \E pt \in Rosters : skirmish = [ playerTeam |-> pt, events |-> << >> ]
    /\ duels = {}

NextDuels ==
    \E type \in { "kill", "damage" }, k \in Fighters, v \in Fighters, damage \in DamageValues :
        AddEvent(type, k, v, damage)

SpecDuels == InitDuels /\ [][NextDuels]_vars

MultiKillWindowMS == 5000

\* The most kills of the round.
MaxFeed == 5

\* The teams of the three players of the round: 1 and 2 play together against 3.
FeedTeam == << "Red", "Red", "Blue" >>

\* The kills the round can have, killer and victim: two across the teams, a
\* teamkill and a self-kill.
FeedKills == { <<1, 3>>, <<3, 1>>, <<1, 2>>, <<3, 3>> }

\* The time between two consecutive kills of the round, in milliseconds.
FeedGaps == { 5000, 5001 }

\* computeRoundMultiKills, "Filter valid kills (exclude self-kills, teamkills)".
ValidKills(evs, pt) ==
    SelectSeq(evs, LAMBDA e : e.type = "kill" /\ e.player # e.victim /\ pt[e.player] # pt[e.victim])

\* computeRoundMultiKills, "Group kills by player": the kills of the player.
killsByPlayer(kills, playerID) == SelectSeq(kills, LAMBDA k : k.player = playerID)

\* sort.Slice by TimestampMS: the kill k put in its place in the sorted kills.
RECURSIVE InsertByTimestamp(_, _)
InsertByTimestamp(sorted, k) ==
    IF sorted = << >> THEN << k >>
    ELSE IF k.t < Head(sorted).t THEN << k >> \o sorted
    ELSE << Head(sorted) >> \o InsertByTimestamp(Tail(sorted), k)

\* sort.Slice by TimestampMS.
RECURSIVE SortByTimestamp(_)
SortByTimestamp(ks) ==
    IF ks = << >> THEN << >> ELSE InsertByTimestamp(SortByTimestamp(SubSeq(ks, 1, Len(ks) - 1)), ks[Len(ks)])

\* continuesStreak with a kill exactly MultiKillWindowMS later ending the streak.
continuesStreak_Strict(previousMS, currentMS) == currentMS - previousMS < MultiKillWindowMS

\* computeRoundMultiKills, continuesStreak: the kill at currentMS continues the
\* streak of the kill at previousMS.
continuesStreak(previousMS, currentMS) == currentMS - previousMS <= MultiKillWindowMS

\* A MultiKillResult with no streak.
NoStreaks == [ MultiKills |-> 0, DoubleKills |-> 0, TripleKills |-> 0, QuadraKills |-> 0, PentaKills |-> 0 ]

\* computeRoundMultiKills, "Streak ended at index i-1": the result with a
\* streak of streakLength kills counted.
StreakEnded(result, streakLength) ==
    IF streakLength < 2 THEN result
    ELSE IF streakLength = 2 THEN [result EXCEPT !.MultiKills = @ + 1, !.DoubleKills = @ + 1]
    ELSE IF streakLength = 3 THEN [result EXCEPT !.MultiKills = @ + 1, !.TripleKills = @ + 1]
    ELSE IF streakLength = 4 THEN [result EXCEPT !.MultiKills = @ + 1, !.QuadraKills = @ + 1]
    ELSE [result EXCEPT !.MultiKills = @ + 1, !.PentaKills = @ + 1]

\* computeRoundMultiKills, "Detect multi-kill streaks": the loop from i (the
\* code's index: playerKills[i] is the (i + 1)-th kill), the streak having
\* started at streakStart.
RECURSIVE StreakScan(_, _, _, _)
StreakScan(playerKills, i, streakStart, result) ==
    IF i > Len(playerKills) THEN result
    ELSE IF i < Len(playerKills) /\ continuesStreak(playerKills[i].t, playerKills[i + 1].t)
         THEN StreakScan(playerKills, i + 1, streakStart, result)
         ELSE StreakScan(playerKills, i + 1, i, StreakEnded(result, i - streakStart))

\* computeRoundMultiKills: the MultiKillResult of one player's kills.
PlayerStreaks(playerKills) ==
    IF Len(playerKills) >= 2 THEN StreakScan(SortByTimestamp(playerKills), 1, 0, NoStreaks) ELSE NoStreaks

\* computeRoundMultiKills: the results of the players that have a multi-kill.
computeRoundMultiKills(evs, pt) ==
    LET kills == ValidKills(evs, pt)
        killers == { kills[n].player : n \in 1..Len(kills) }
        results == [ p \in killers |-> PlayerStreaks(killsByPlayer(kills, p)) ]
    IN  [ p \in { q \in killers : results[q].MultiKills > 0 } |-> results[p] ]

\* One more kill in the round; BuildAggregates computes the multi-kills again.
AddFeedKill(pair, gap) ==
    /\ Len(killFeed) < MaxFeed
    /\ killFeed' = Append(killFeed, [ type |-> "kill", player |-> pair[1], victim |-> pair[2],
                                      t |-> LastTime(killFeed) + gap ])
    /\ multiKills' = computeRoundMultiKills(killFeed', FeedTeam)
    /\ UNCHANGED <<data, now, runs, roundVars, sideVars, sideFnVars, duelVars, dbVars, queueVars>>

\* ----------------------------------------------------------- SpecMultiKills
InitMultiKills ==
    /\ InitDb /\ InitRedis /\ NoRound /\ NoSides /\ NoSideCall /\ NoDuels
    /\ data = [red |-> 0, blue |-> 0, tag |-> [p \in Players |-> "Red"], acs |-> [p \in Players |-> 0]]
    /\ now = 1
    /\ runs = << >>
    /\ killFeed = << >>
    /\ multiKills = computeRoundMultiKills(<< >>, FeedTeam)

NextMultiKills ==
    \E pair \in FeedKills, gap \in FeedGaps : AddFeedKill(pair, gap)

SpecMultiKills == InitMultiKills /\ [][NextMultiKills]_vars

\* -------------------------------------------------------- multi-kill claims
\* The times of the kills of player p on players of the other team, in the
\* order of the round.
CrossTeamKillTimes(p) ==
    LET at == SelectSeq(killFeed, LAMBDA e : e.player = p /\ e.victim # p /\ FeedTeam[e.victim] # FeedTeam[p])
    IN  [ n \in 1..Len(at) |-> at[n].t ]

\* The lengths of the maximal streaks of the times T, by the position of their
\* first kill: a streak starts at the first kill and after every gap of more
\* than 5000 ms, and goes on to the last kill before the next such gap.
StreakLengths(T) ==
    LET breaks == { i \in 1..Len(T) : i = Len(T) \/ T[i + 1] - T[i] > 5000 }
        starts == { i \in 1..Len(T) : i = 1 \/ T[i] - T[i - 1] > 5000 }
    IN  [ i \in starts |-> (CHOOSE j \in breaks : j >= i /\ \A k \in breaks : k >= i => j <= k) - i + 1 ]

\* The streak counts the round holds for player p: zeros for a player without result.
StreaksOf(p) == IF p \in DOMAIN multiKills THEN multiKills[p] ELSE NoStreaks

====
